---- MODULE Spec2Model ----
(***************************************************************************)
(* A model of the indexing and caching pipeline of s3-photobrowser:        *)
(*   server/services/photoIndexer.ts   PhotoIndexerService                 *)
(*   server/services/database.ts       DatabaseService                     *)
(*   server/services/cacheManager.ts   CacheManagerService                 *)
(*   server/services/imageProcessor.ts ImageProcessorService               *)
(*   server/services/s3Client.ts       S3ClientService                     *)
(*   server/services/videoProcessor.ts VideoProcessorService               *)
(*   server/config.ts                  the routes of the API               *)
(* The server is one Node.js process: code between two awaits runs as one  *)
(* atomic step, and every await is a point where other tasks interleave.   *)
(* Strings that the code inspects character by character (object keys) are *)
(* sequences of one-character strings.                                     *)
(***************************************************************************)
EXTENDS Integers, Sequences, FiniteSets, TLC

(***************************************************************************)
(* Optional values (undefined / null in the source).                       *)
(***************************************************************************)
None == <<>>
Some(x) == <<x>>
IsSome(o) == o /= <<>>
Get(o) == o[1]

(***************************************************************************)
(* Characters and strings.                                                 *)
(***************************************************************************)
UpperChars == <<"A","B","C","D","E","F","G","H","I","J","K","L","M",
                "N","O","P","Q","R","S","T","U","V","W","X","Y","Z">>
LowerChars == <<"a","b","c","d","e","f","g","h","i","j","k","l","m",
                "n","o","p","q","r","s","t","u","v","w","x","y","z">>
DigitChars == <<"0","1","2","3","4","5","6","7","8","9">>

InSeq(c, s) == \E i \in 1..Len(s) : s[i] = c
IndexIn(c, s) == CHOOSE i \in 1..Len(s) : s[i] = c

IsDigit(c) == InSeq(c, DigitChars)
DigitVal(c) == IndexIn(c, DigitChars) - 1
\* \w of a JavaScript regular expression
IsWordChar(c) == InSeq(c, UpperChars) \/ InSeq(c, LowerChars) \/ IsDigit(c) \/ c = "_"

toLowerCaseChar(c) == IF InSeq(c, UpperChars) THEN LowerChars[IndexIn(c, UpperChars)] ELSE c
toLowerCase(s) == [i \in 1..Len(s) |-> toLowerCaseChar(s[i])]

\* String.prototype.lastIndexOf('.'), 1-based; 0 when there is no dot (-1 in JS)
lastIndexOfDot(s) ==
    IF \E i \in 1..Len(s) : s[i] = "."
    THEN CHOOSE i \in 1..Len(s) : s[i] = "." /\ \A j \in (i+1)..Len(s) : s[j] /= "."
    ELSE 0

\* filename.toLowerCase().substring(filename.lastIndexOf('.'))
\* substring(-1) is substring(0): without a dot the whole name is the "extension"
extOf(filename) ==
    LET l == toLowerCase(filename)
        d == lastIndexOfDot(filename)
    IN  IF d = 0 THEN l ELSE SubSeq(l, d, Len(l))

imageExtensions == { <<".","j","p","g">>, <<".","j","p","e","g">>, <<".","p","n","g">>,
                     <<".","g","i","f">>, <<".","w","e","b","p">>, <<".","h","e","i","c">> }
videoExtensions == { <<".","m","p","4">>, <<".","m","o","v">>, <<".","a","v","i">>,
                     <<".","m","k","v">>, <<".","w","e","b","m">> }

isImage(filename) == extOf(filename) \in imageExtensions
isVideo(filename) == extOf(filename) \in videoExtensions

(***************************************************************************)
(* Dates.  A Date is either an instant of the object store's clock         *)
(* ([ms |-> n]) or a calendar day built by new Date(year, month-1, day).   *)
(* toISOString is injective on valid dates; the ISO string of a date d is  *)
(* the value [iso |-> d].                                                  *)
(***************************************************************************)
DateOfMs(n) == [ms |-> n]
DateYMD(y, m, d) == [year |-> y, month |-> m, day |-> d]

\* the number of days of a month of the Gregorian calendar
DaysInMonth(y, m) ==
    IF m = 2
    THEN IF (y % 4 = 0 /\ y % 100 /= 0) \/ y % 400 = 0 THEN 29 ELSE 28
    ELSE IF m \in {4, 6, 9, 11} THEN 30 ELSE 31

\* new Date(year, monthIndex, day) for a month index in 0..11 and a day in
\* 1..31: a day past the end of the month runs over into the next month.
\* The server runs in UTC, where local midnight is the instant toISOString
\* prints.
NewDate(year, monthIndex, day) ==
    LET m == monthIndex + 1 IN
    IF day <= DaysInMonth(year, m) THEN DateYMD(year, m, day)
    ELSE DateYMD(year, m + 1, day - DaysInMonth(year, m))
toISOString(d) == [iso |-> d]

\* the positions where the four characters of a year in 1900..2099 start,
\* with a word boundary on both sides: /\b(19|20)\d{2}\b/
YearAt(s, i) ==
    /\ i + 3 <= Len(s)
    /\ \/ (s[i] = "1" /\ s[i+1] = "9")
       \/ (s[i] = "2" /\ s[i+1] = "0")
    /\ IsDigit(s[i+2]) /\ IsDigit(s[i+3])
    /\ (i = 1 \/ ~IsWordChar(s[i-1]))
    /\ (i + 4 > Len(s) \/ ~IsWordChar(s[i+4]))

FirstPos(s, P(_, _)) ==
    IF \E i \in 1..Len(s) : P(s, i)
    THEN CHOOSE i \in 1..Len(s) : P(s, i) /\ \A j \in 1..(i-1) : ~P(s, j)
    ELSE 0

Num2(a, b) == 10 * DigitVal(a) + DigitVal(b)
Num4(s, i) == 1000 * DigitVal(s[i]) + 100 * DigitVal(s[i+1]) + 10 * DigitVal(s[i+2]) + DigitVal(s[i+3])

\* decimal digits of a year (four characters) and of a month, padStart(2, '0')
YearDigits(y) == << DigitChars[(y \div 1000) + 1], DigitChars[((y \div 100) % 10) + 1],
                    DigitChars[((y \div 10) % 10) + 1], DigitChars[(y % 10) + 1] >>
Pad2(m) == << DigitChars[(m \div 10) + 1], DigitChars[(m % 10) + 1] >>

HasPrefixAt(s, i, p) == i + Len(p) - 1 <= Len(s) /\ SubSeq(s, i, i + Len(p) - 1) = p
IsSep(c) == c = "/" \/ c = "-"
\* (0[1-9]|1[0-2])
IsMonth2(a, b) == (a = "0" /\ IsDigit(b) /\ b /= "0") \/ (a = "1" /\ b \in {"0", "1", "2"})
\* (0[1-9]|[12][0-9]|3[01])
IsDay2(a, b) == \/ (a = "0" /\ IsDigit(b) /\ b /= "0")
                \/ (a \in {"1", "2"} /\ IsDigit(b))
                \/ (a = "3" /\ b \in {"0", "1"})

extractDateFromPath(s3Key) ==
    LET yi == FirstPos(s3Key, YearAt) IN
    IF yi = 0 THEN None
    ELSE
      LET year == Num4(s3Key, yi)
          yd   == YearDigits(year)
          \* new RegExp(`${year}[/-](0[1-9]|1[0-2])`)
          MonthAt(s, i) == /\ HasPrefixAt(s, i, yd)
                           /\ i + 6 <= Len(s)
                           /\ IsSep(s[i+4])
                           /\ IsMonth2(s[i+5], s[i+6])
          mi    == FirstPos(s3Key, MonthAt)
          month == IF mi = 0 THEN 1 ELSE Num2(s3Key[mi+5], s3Key[mi+6])
          md    == Pad2(month)
          \* new RegExp(`${year}[/-]${MM}[/-](0[1-9]|[12][0-9]|3[01])`)
          DayAt(s, i) == /\ HasPrefixAt(s, i, yd)
                         /\ i + 9 <= Len(s)
                         /\ IsSep(s[i+4])
                         /\ SubSeq(s, i+5, i+6) = md
                         /\ IsSep(s[i+7])
                         /\ IsDay2(s[i+8], s[i+9])
          di    == FirstPos(s3Key, DayAt)
          day   == IF di = 0 THEN 1 ELSE Num2(s3Key[di+8], s3Key[di+9])
      IN  Some(NewDate(year, month - 1, day))

(***************************************************************************)
(* Bounds of the model.                                                    *)
(***************************************************************************)
\* the moves of the environment of the indexer in one behaviour: calls made
\* through the API, objects overwritten in the bucket, faults
MaxEvents == 2
\* the calls of getProcessedImage in one behaviour
MaxRequests == 2

(***************************************************************************)
(* The bucket.  Keys in the order in which a listing returns them.         *)
(*   KeyA  p/2022/a.jpg      KeyB  p/2023/06/b.JPG                         *)
(*   KeyC  c.mp4             KeyN  n.txt (not a media file)                *)
(***************************************************************************)
KeyA == <<"p","/","2","0","2","2","/","a",".","j","p","g">>
KeyB == <<"p","/","2","0","2","3","/","0","6","/","b",".","J","P","G">>
KeyC == <<"c",".","m","p","4">>
KeyN == <<"n",".","t","x","t">>
KeyOrder == <<KeyC, KeyN, KeyA, KeyB>>
Keys == {KeyOrder[i] : i \in 1..Len(KeyOrder)}
\* the keys of the folder layouts that extractDateFromPath is applied to: a
\* prefix, a middle part and the file name /x.jpg
FolderPrefixes ==
    << <<>>,
       <<"p","/">>,
       <<"2","0","2","3","/","x","/">>,
       <<"1","9","9","9","-","1","2","/">> >>
FolderMiddles ==
    << <<"2","0","2","3">>,
       <<"2","0","2","3","/","0","5">>,
       <<"2","0","2","3","-","0","5","-","1","7">>,
       <<"2","0","2","3","/","0","5","/","1","7">>,
       <<"2","0","2","3","/","0","2","/","3","1">>,
       <<"2","0","2","3","/","0","2","/","2","9">>,
       <<"2","0","2","4","/","0","2","/","2","9">>,
       <<"2","0","2","3","/","0","4","/","3","1">>,
       <<"2","0","2","3","/","1","2","/","3","1">>,
       <<"2","0","2","3","/","1","3">>,
       <<"2","0","2","3","/","0","5","/","3","2">>,
       <<"2","0","2","3","/","5">>,
       <<"1","8","9","9">>,
       <<"x">> >>
FolderKeyOrder ==
    [n \in 1..(Len(FolderPrefixes) * Len(FolderMiddles)) |->
        FolderPrefixes[((n - 1) \div Len(FolderMiddles)) + 1]
           \o FolderMiddles[((n - 1) % Len(FolderMiddles)) + 1]
           \o <<"/","x",".","j","p","g">>]
FolderKeys == {FolderKeyOrder[i] : i \in 1..Len(FolderKeyOrder)}
\* the order in which a listing returns the keys it has
ListingOrder == KeyOrder \o FolderKeyOrder
Infinity == 1000
BatchSizes == {1, 2}
\* the two callers of indexAllPhotos: start() and POST /api/photos/refresh
Runners == {"startup", "refresh"}
\* the keys that are overwritten in the bucket, and the keys clients request
PutKeys == {KeyA}
RequestKeys == {KeyA}
ReindexKeys == {KeyA, KeyN}

\* what exifr.parse can return for the bytes of an object
ExifFull   == [DateTimeOriginal |-> Some(DateYMD(2020, 2, 2)), Make |-> Some("Canon"),
               ExposureTime |-> Some(4), ImageWidth |-> Some(40), ImageHeight |-> Some(30)]
ExifNoDate == [DateTimeOriginal |-> None, Make |-> Some("Canon"),
               ExposureTime |-> None, ImageWidth |-> None, ImageHeight |-> None]
\* the EXIF content of an object is "undefined" (none), "full" or "nodate"
ParsedExif(e) == IF e = "full" THEN ExifFull ELSE ExifNoDate
\* the versions an overwritten object can get: size and EXIF content
ObjectVersions == { [size |-> 3, exif |-> "full"] }

VARIABLES
    dateAccuracy,             \* config.indexing.dateAccuracy
    enableBackgroundIndexing, \* config.indexing.enableBackgroundIndexing
    initialLimit,             \* the initialLimit of indexAllPhotos: config.cache.preloadCount
    bucket,                   \* the objects of the bucket: key, size, lastModified, content
    photos,                   \* rows of the table photos
    nextId,                   \* per key, the number of values randomUUID() returned for it
    backgroundIndexing,       \* PhotoIndexerService.backgroundIndexing
    backgroundIndexStats,     \* PhotoIndexerService.backgroundIndexStats
    bgLoops,                  \* the detached loops started by startBackgroundIndexing
    run,                      \* the calls of indexAllPhotos in flight, per caller
    nextBatch,                \* the call of indexNextBatch in flight
    reindex,                  \* the call of reindexPhoto / indexPhotoByKey in flight
    calls,                    \* the number of calls of the indexer made so far
    failures,                 \* the number of EXIF fetches and upserts that threw so far
    lastCall,                 \* observation: the call of indexPhoto made by the latest step
    lastReturn,               \* observation: the call that returned in the latest step
    lastLoop,                 \* observation: the loop that ended in the latest step
    files,                    \* the disk: size of the file at each cache path and temporary path
    cacheMap,                 \* CacheManagerService.cacheMap
    currentSize,              \* CacheManagerService.currentSize
    hits,                     \* CacheManagerService.hits
    misses,                   \* CacheManagerService.misses
    now,                      \* the latest value of Date.now()
    requests,                 \* the handler calls in flight, per requester
    cacheCalls,               \* the number of calls of getCachedFile made so far
    readSinceWrite,           \* observation: the paths read through getCachedFile since written
    lastPut,                  \* observation: the call of saveToCac that returned in the latest step
    lastEvict,                \* observation: the entry the latest step evicted
    fetched,                  \* observation: the keys getProcessedImage was called for so far
    lastGet,                  \* observation: the request that ended in the latest step
    lastRefine                \* observation: the call of updatePhotoExif made by the latest step

\* the variables of the indexer other than the table
indexOther == <<dateAccuracy, enableBackgroundIndexing, initialLimit, bucket, nextId,
                backgroundIndexing, backgroundIndexStats, bgLoops, run, nextBatch,
                reindex, calls, failures, lastCall, lastReturn, lastLoop>>

indexVars == <<dateAccuracy, enableBackgroundIndexing, initialLimit, bucket, photos, nextId,
               backgroundIndexing, backgroundIndexStats, bgLoops, run, nextBatch,
               reindex, calls, failures, lastCall, lastReturn, lastLoop>>

cacheVars == <<files, cacheMap, currentSize, hits, misses, now, requests, cacheCalls,
               readSinceWrite, lastPut, lastEvict, fetched, lastGet, lastRefine>>

vars == <<indexVars, cacheVars>>

(***************************************************************************)
(* S3ClientService.listAllObjects and the sort of the media objects.       *)
(***************************************************************************)
ObjectOf(k) == CHOOSE o \in bucket : o.key = k
\* the S3Object of a bucket object: { key, size, lastModified }
S3Object(o) == [key |-> o.key, size |-> o.size, lastModified |-> o.lastModified]
listAllObjects ==
    LET present == SelectSeq(ListingOrder, LAMBDA k : \E o \in bucket : o.key = k)
    IN  [i \in 1..Len(present) |-> S3Object(ObjectOf(present[i]))]

\* what exifr.parse returns for the bytes of the object now stored under a key
ExifOfKey(k) == ObjectOf(k).exif

FilterMedia(objects) == SelectSeq(objects, LAMBDA o : isImage(o.key) \/ isVideo(o.key))

RemoveAt(s, i) == SubSeq(s, 1, i - 1) \o SubSeq(s, i + 1, Len(s))

\* Array.prototype.sort((a, b) => b.lastModified - a.lastModified): stable,
\* newest first
RECURSIVE SortNewestFirst(_)
SortNewestFirst(s) ==
    IF Len(s) <= 1 THEN s
    ELSE LET i == CHOOSE i \in 1..Len(s) :
                    /\ \A j \in 1..Len(s) : s[j].lastModified.ms <= s[i].lastModified.ms
                    /\ \A j \in 1..(i-1) : s[j].lastModified.ms < s[i].lastModified.ms
         IN  <<s[i]>> \o SortNewestFirst(RemoveAt(s, i))

Min(a, b) == IF a <= b THEN a ELSE b
\* Array.prototype.slice(from) and slice(0, n) for n >= 0
SliceFrom(s, from) == SubSeq(s, from + 1, Len(s))
SliceTo(s, n) == SubSeq(s, 1, Min(n, Len(s)))

(***************************************************************************)
(* DatabaseService.  A row keeps the columns the indexer reads or writes;  *)
(* cameraMake stands for the nine EXIF columns rowToPhoto tests, and       *)
(* exposureTime is the one EXIF column it does not test.                   *)
(***************************************************************************)
rowToPhoto(row) ==
    [ id |-> row.id, s3Key |-> row.s3Key, size |-> row.size, type |-> row.type,
      width |-> row.width, height |-> row.height,
      createdAt |-> row.createdAt, modifiedAt |-> row.modifiedAt,
      exif |-> IF IsSome(row.cameraMake)
               THEN Some([cameraMake |-> row.cameraMake, exposureTime |-> row.exposureTime])
               ELSE None,
      cached |-> (row.cached = 1) ]

getPhotoByS3Key(s3Key) ==
    IF \E r \in photos : r.s3Key = s3Key
    THEN Some(rowToPhoto(CHOOSE r \in photos : r.s3Key = s3Key))
    ELSE None

\* SELECT * FROM photos WHERE id = ?
getPhotoById(id) ==
    IF \E r \in photos : r.id = id
    THEN Some(rowToPhoto(CHOOSE r \in photos : r.id = id))
    ELSE None

\* DELETE FROM photos WHERE id = ?
deletePhoto(table, id) == {r \in table : r.id /= id}

\* the parameters stmt.run binds for a PhotoMetadata
RowOfPhoto(photo) ==
    [ id |-> photo.id, s3Key |-> photo.s3Key, size |-> photo.size, type |-> photo.type,
      width |-> photo.width, height |-> photo.height,
      createdAt |-> photo.createdAt, modifiedAt |-> photo.modifiedAt,
      cameraMake |-> IF IsSome(photo.exif) THEN Get(photo.exif).cameraMake ELSE None,
      exposureTime |-> IF IsSome(photo.exif) THEN Get(photo.exif).exposureTime ELSE None,
      cached |-> IF photo.cached THEN 1 ELSE 0 ]

\* createdAt = @createdAt is in the SET list as well
ConflictCreatedAtSet(r, new) == new.createdAt

\* the createdAt of a row after ON CONFLICT(s3Key) DO UPDATE: the column is
\* bound for the INSERT and is not in the SET list
ConflictCreatedAt(r, new) == r.createdAt

\* ON CONFLICT(s3Key) DO NOTHING
ConflictDoNothing(r, new) == r

\* ON CONFLICT(s3Key) DO UPDATE SET ...: id and createdAt are not in the
\* SET list
ConflictUpdate(r, new) ==
    [r EXCEPT !.size = new.size, !.type = new.type,
              !.width = new.width, !.height = new.height,
              !.createdAt = ConflictCreatedAt(r, new),
              !.modifiedAt = new.modifiedAt,
              !.cameraMake = new.cameraMake,
              !.exposureTime = new.exposureTime,
              !.cached = new.cached]

\* a plain INSERT: no ON CONFLICT clause and no UNIQUE constraint
upsertPhotoInsertOnly(table, photo) == table \cup {RowOfPhoto(photo)}

\* INSERT INTO photos ... ON CONFLICT(s3Key) DO UPDATE SET ...
upsertPhoto(table, photo) ==
    LET new == RowOfPhoto(photo) IN
    IF \E r \in table : r.s3Key = photo.s3Key
    THEN { IF r.s3Key = photo.s3Key THEN ConflictUpdate(r, new) ELSE r : r \in table }
    ELSE table \cup {new}

\* UPDATE photos SET cached = 1 WHERE id = ?
markAsCached(table, id) ==
    { IF r.id = id THEN [r EXCEPT !.cached = 1] ELSE r : r \in table }

\* UPDATE photos SET <every field of data, NULL for one that is not defined>
updatePhotoExifReplace(table, s3Key, data) ==
    { IF r.s3Key = s3Key
      THEN [r EXCEPT
              !.cameraMake = IF IsSome(data.exif) THEN Get(data.exif).cameraMake ELSE None,
              !.exposureTime = IF IsSome(data.exif) THEN Get(data.exif).exposureTime ELSE None,
              !.createdAt = IF IsSome(data.createdAt) THEN Get(data.createdAt) ELSE @,
              !.width = data.width,
              !.height = data.height]
      ELSE r : r \in table }

\* UPDATE photos SET <the fields of data that are defined> WHERE s3Key = ?
updatePhotoExif(table, s3Key, data) ==
    { IF r.s3Key = s3Key
      THEN [r EXCEPT
              !.cameraMake = IF IsSome(data.exif) /\ IsSome(Get(data.exif).cameraMake)
                             THEN Get(data.exif).cameraMake ELSE @,
              !.exposureTime = IF IsSome(data.exif) /\ IsSome(Get(data.exif).exposureTime)
                               THEN Get(data.exif).exposureTime ELSE @,
              !.createdAt = IF IsSome(data.createdAt) THEN Get(data.createdAt) ELSE @,
              !.width = IF IsSome(data.width) THEN data.width ELSE @,
              !.height = IF IsSome(data.height) THEN data.height ELSE @]
      ELSE r : r \in table }

(***************************************************************************)
(* The environment of the indexer.                                         *)
(***************************************************************************)
\* the bucket of the end-to-end scenario: newest to oldest b.JPG, c.mp4, a.jpg
InitialBucket ==
    { [key |-> KeyA, size |-> 2, lastModified |-> DateOfMs(1), exif |-> "nodate"],
      [key |-> KeyC, size |-> 50, lastModified |-> DateOfMs(2), exif |-> "undefined"],
      [key |-> KeyB, size |-> 11, lastModified |-> DateOfMs(3), exif |-> "full"],
      [key |-> KeyN, size |-> 1, lastModified |-> DateOfMs(3), exif |-> "undefined"] }

\* the latest LastModified among the objects of the bucket
MaxLastModified ==
    LET times == {o.lastModified.ms : o \in bucket}
    IN  CHOOSE t \in times : \A u \in times : u <= t

\* the latest LastModified of the bucket at the start
InitialLastModified ==
    LET times == {o.lastModified.ms : o \in InitialBucket}
    IN  CHOOSE t \in times : \A u \in times : u <= t

\* the moves the environment has made: every overwrite advances the clock
\* of the bucket by one
Events == calls + failures + (MaxLastModified - InitialLastModified)

(***************************************************************************)
(* PhotoIndexerService.indexPhoto.                                         *)
(* In the modes none, folders and folders-exif, and for videos, the body   *)
(* has no await and runs as one step.  In mode exif a photo that is not up *)
(* to date suspends on getPartialObjectBuffer / exifr.parse with the value *)
(* of `existing` it read before, and resumes in a later step.              *)
(***************************************************************************)
\* the test of line 257 never succeeds
UpToDateNever(existing, object) == FALSE

\* existing && existing.modifiedAt === object.lastModified.toISOString()
UpToDate(existing, object) ==
    IsSome(existing) /\ Get(existing).modifiedAt = toISOString(object.lastModified)

\* does this call of indexPhoto await the EXIF bytes?
FetchesExif(object) == dateAccuracy = "exif" /\ ~isVideo(object.key)

\* the catch of line 349: the fetch or the parse threw; "gone" is the
\* fetch of an object that is no longer in the bucket
Threw(parse) == parse \in {"throw", "gone"}

\* parsedExif is truthy
Parsed(parse) == parse \in {"full", "nodate"}

FolderDateOr(object) ==
    LET folderDate == extractDateFromPath(object.key)
    IN  IF IsSome(folderDate) THEN Get(folderDate) ELSE object.lastModified

\* the value of createdAt after the switch on dateAccuracy; parse is the
\* outcome of the EXIF fetch when one was made
CreatedAtOf(object, parse) ==
    CASE dateAccuracy = "none" -> object.lastModified
      [] dateAccuracy \in {"folders", "folders-exif"} -> FolderDateOr(object)
      [] OTHER ->
           IF isVideo(object.key) THEN object.lastModified
           ELSE IF Threw(parse) THEN FolderDateOr(object)
           ELSE IF Parsed(parse) /\ IsSome(ParsedExif(parse).DateTimeOriginal)
                THEN Get(ParsedExif(parse).DateTimeOriginal)
                ELSE object.lastModified

\* the ExifData built from a parsed EXIF block
ExifDataOf(parsedExif) ==
    [cameraMake |-> parsedExif.Make, exposureTime |-> parsedExif.ExposureTime]

\* randomUUID(): a value no earlier call returned.  The value names the key it
\* is generated for and counts the values generated for that key.
randomUUID(key) == [key |-> key, n |-> nextId[key] + 1]

\* the PhotoMetadata of lines 361-376
BuildPhoto(object, existing, parse, uuid) ==
    LET useParsed == FetchesExif(object) /\ Parsed(parse)
        pe        == ParsedExif(parse)
        dims      == useParsed /\ IsSome(pe.ImageWidth) /\ IsSome(pe.ImageHeight)
    IN  [ id |-> IF IsSome(existing) THEN Get(existing).id ELSE uuid,
          s3Key |-> object.key,
          size |-> object.size,
          type |-> IF isVideo(object.key) THEN "video" ELSE "photo",
          width |-> IF dims THEN pe.ImageWidth
                    ELSE IF IsSome(existing) THEN Get(existing).width ELSE None,
          height |-> IF dims THEN pe.ImageHeight
                     ELSE IF IsSome(existing) THEN Get(existing).height ELSE None,
          createdAt |-> toISOString(CreatedAtOf(object, parse)),
          modifiedAt |-> toISOString(object.lastModified),
          exif |-> IF useParsed THEN Some(ExifDataOf(pe))
                   ELSE IF IsSome(existing) THEN Get(existing).exif ELSE None,
          cached |-> IF IsSome(existing) THEN Get(existing).cached ELSE FALSE ]

NoCall == [object |-> None, sameMarker |-> FALSE, outcome |-> "none", hadRow |-> FALSE,
           parse |-> "none"]

\* does the table hold a row of this key whose modifiedAt is the marker of
\* the listed object?
SameMarker(object) ==
    \E r \in photos : r.s3Key = object.key /\ r.modifiedAt = toISOString(object.lastModified)

\* what the last step of a call of indexPhoto was given and how it ended;
\* same tells whether the marker matched when the call began, hadRow whether
\* the key had a row when the step was taken, parse what the EXIF fetch of
\* the call gave when the step followed one
Observe(object, same, out, parse) ==
    lastCall' = [object |-> Some(object), sameMarker |-> same, outcome |-> out,
                 hadRow |-> IsSome(getPhotoByS3Key(object.key)), parse |-> parse]

\* the faults of one call of indexPhoto: the EXIF fetch threw, the upsert threw
Faults(parse, out) ==
    (IF parse = "throw" THEN 1 ELSE 0) + (IF out = "failed" THEN 1 ELSE 0)

\* the part of indexPhoto after the switch: build the record and upsert it;
\* "failed" is database.upsertPhoto throwing
indexPhotoTail(object, existing, parse, same, out) ==
    /\ Events + Faults(parse, out) <= MaxEvents
    /\ failures' = failures + Faults(parse, out)
    /\ nextId' = IF IsSome(existing) THEN nextId
                  ELSE [nextId EXCEPT ![object.key] = @ + 1]
    /\ \/ /\ out = "ok"
          /\ photos' = upsertPhoto(photos, BuildPhoto(object, existing, parse, randomUUID(object.key)))
       \/ /\ out = "failed"
          /\ photos' = photos
    /\ Observe(object, same, out, parse)

\* a call of indexPhoto up to its first await or its return
indexPhoto(object, out) ==
    LET existing == getPhotoByS3Key(object.key) IN
    IF UpToDate(existing, object)
    THEN /\ out = "ok"
         /\ UNCHANGED <<photos, nextId, failures>>
         /\ Observe(object, SameMarker(object), out, "none")
    ELSE IF FetchesExif(object)
         THEN /\ out = "suspended"
              /\ UNCHANGED <<photos, nextId, failures>>
              /\ Observe(object, SameMarker(object), out, "none")
         ELSE indexPhotoTail(object, existing, "nofetch", SameMarker(object), out)

\* what the caller keeps while indexPhoto is suspended
FetchOf(object, out) ==
    IF out = "suspended"
    THEN Some([object |-> object, existing |-> getPhotoByS3Key(object.key),
               sameMarker |-> SameMarker(object)])
    ELSE None

\* what the EXIF fetch of a key can give: the content of the object, or a
\* fault; the fetch of a deleted object throws
FetchResults(key) ==
    IF \E o \in bucket : o.key = key
    THEN {"throw", ExifOfKey(key)}
    ELSE {"gone"}

\* the continuation of a suspended indexPhoto: the fetch or the parse threw,
\* or exifr.parse returned the EXIF content of the object
indexPhotoResume(fetch, out) ==
    \E parse \in FetchResults(Get(fetch).object.key) :
        indexPhotoTail(Get(fetch).object, Get(fetch).existing, parse,
                       Get(fetch).sameMarker, out)

Outcomes == {"ok", "failed", "suspended"}

(***************************************************************************)
(* PhotoIndexerService.indexAllPhotos, one call per caller.  An async      *)
(* function runs synchronously up to its first pending await, so a step of *)
(* the loop is the continuation of `await this.indexPhoto(object)`: the    *)
(* counter update for the object just awaited, then the call of indexPhoto *)
(* for the next object up to its own await, or the code after the loop.    *)
(* When a call returns its record is released, and the step leaves what it *)
(* returned in lastReturn.                                                 *)
(***************************************************************************)
IdleRun == [pc |-> "idle", limit |-> 0, mediaObjects |-> <<>>, initialBatchSize |-> 0,
            i |-> 0, indexed |-> 0, failed |-> 0, out |-> "none", fetch |-> None,
            processed |-> <<>>, listed |-> 0]

NoReturn == [kind |-> "none", limit |-> 0, given |-> 0, listed |-> 0,
             processed |-> <<>>, remaining |-> <<>>, total |-> 0, indexed |-> 0, failed |-> 0,
             backgroundIndexing |-> FALSE, started |-> FALSE,
             query |-> None, page |-> <<>>, hasMore |-> FALSE, objects |-> <<>>]

NoLoop == [finished |-> FALSE, initialIndexed |-> 0, initialFailed |-> 0, count |-> 0]

\* no call made through the API is in flight
ApiIdle ==
    /\ run["refresh"].pc = "idle"
    /\ nextBatch.pc = "idle"
    /\ reindex.pc = "idle"

\* the client of the API makes its calls one after the other
MayCall == Events < MaxEvents /\ ApiIdle

\* the number of photo and video objects in the bucket
ListedMedia == Cardinality({o \in bucket : isImage(o.key) \/ isVideo(o.key)})

\* the step calls indexPhoto for no object
NoCallMade ==
    /\ lastCall' = NoCall
    /\ UNCHANGED <<photos, nextId, failures>>

\* the flag is ignored
AlreadyRunningIgnored == FALSE

\* if (this.backgroundIndexing) return
AlreadyRunning == backgroundIndexing

\* the objects of the call are queued behind those of the active loop
StartQueued(loops, objects) == [loops EXCEPT ![1].objects = @ \o objects]

\* the return of line 95: the loops are as they were and the objects of the
\* call are dropped
StartSkipped(loops, objects) == loops

\* startBackgroundIndexing(objects): the check, the two assignments and the
\* detached loop up to its first await, which is the call of indexPhoto for
\* the first object
startBackgroundIndexing(objects, launch) ==
    IF AlreadyRunning
    THEN /\ bgLoops' = StartSkipped(bgLoops, objects)
         /\ UNCHANGED <<backgroundIndexing, backgroundIndexStats>>
         /\ NoCallMade
    ELSE /\ backgroundIndexing' = TRUE
         /\ backgroundIndexStats' = [indexed |-> 0, failed |-> 0]
         /\ \E out \in Outcomes :
               /\ indexPhoto(objects[1], out)
               /\ bgLoops' = Append(bgLoops, [objects |-> objects, pos |-> 1, out |-> out,
                                              fetch |-> FetchOf(objects[1], out),
                                              launch |-> launch])

\* the array is left in listing order
SortSkipped(s) == s

\* mediaObjects.sort(...) of line 37
SortMedia(s) == SortNewestFirst(s)

\* every limit bounds the initial batch, 0 included
shouldLimitInitialAlways(limit) == TRUE

\* const shouldLimitInitial = limit > 0 && limit < Infinity
shouldLimitInitial(limit) == limit > 0 /\ limit < Infinity

\* lines 64-86: the code after the loop, up to the return
RunReturn(r, rec) ==
    LET hasBackgroundWork == shouldLimitInitial(rec.limit) /\ Len(rec.mediaObjects) > rec.limit
        shouldStartBackgroundIndexing == hasBackgroundWork /\ enableBackgroundIndexing
        remainingObjects == SliceFrom(rec.mediaObjects, rec.initialBatchSize)
        launch == [initialIndexed |-> rec.indexed, initialFailed |-> rec.failed]
    IN  /\ run' = [run EXCEPT ![r] = IdleRun]
        /\ lastReturn' = [kind |-> "run", limit |-> rec.limit,
                          given |-> rec.initialBatchSize, listed |-> rec.listed,
                          processed |-> rec.processed,
                          remaining |-> remainingObjects,
                          total |-> Len(rec.mediaObjects), indexed |-> rec.indexed,
                          failed |-> rec.failed,
                          backgroundIndexing |-> shouldStartBackgroundIndexing,
                          started |-> shouldStartBackgroundIndexing /\ ~backgroundIndexing,
                          query |-> None, page |-> <<>>, hasMore |-> FALSE,
                          objects |-> <<>>]
        /\ IF shouldStartBackgroundIndexing
           THEN startBackgroundIndexing(remainingObjects, launch)
           ELSE /\ UNCHANGED <<backgroundIndexing, backgroundIndexStats, bgLoops>>
                /\ NoCallMade

\* a failure is not counted
CountOkOnly(rec, object, out) ==
    [rec EXCEPT !.i = @ + 1,
                !.indexed = IF out = "ok" THEN @ + 1 ELSE @,
                !.out = "none",
                !.processed = Append(@, object)]

\* the counters after indexPhoto returned (indexed++) or threw (failed++)
Count(rec, object, out) ==
    [rec EXCEPT !.i = @ + 1,
                !.indexed = IF out = "ok" THEN @ + 1 ELSE @,
                !.failed = IF out = "failed" THEN @ + 1 ELSE @,
                !.out = "none",
                !.processed = Append(@, object)]

\* await this.indexPhoto(object) for the next object of the batch
RunCall(r, rec) ==
    LET object == rec.mediaObjects[rec.i + 1] IN
    \E out \in Outcomes :
       /\ indexPhoto(object, out)
       /\ run' = [run EXCEPT ![r] = [rec EXCEPT !.out = out, !.fetch = FetchOf(object, out)]]
       /\ lastReturn' = NoReturn
       /\ UNCHANGED <<backgroundIndexing, backgroundIndexStats, bgLoops>>

\* the head of the for loop: go on with the next object, or leave the loop
\* and return
RunProceed(r, rec) ==
    IF rec.i < rec.initialBatchSize
    THEN RunCall(r, rec)
    ELSE RunReturn(r, rec)

\* the continuation of `await s3Client.listAllObjects()`: filter, sort,
\* batch size, and the loop up to its first await
RunList(r) ==
    /\ run[r].pc = "listing"
    /\ LET limit == initialLimit
           mediaObjects == SortMedia(FilterMedia(listAllObjects))
           initialBatchSize == IF shouldLimitInitial(limit)
                               THEN Min(limit, Len(mediaObjects))
                               ELSE Len(mediaObjects)
           rec == [IdleRun EXCEPT !.pc = "loop", !.limit = limit,
                                  !.mediaObjects = mediaObjects,
                                  !.initialBatchSize = initialBatchSize,
                                  !.listed = ListedMedia]
       IN  RunProceed(r, rec)
    /\ lastLoop' = NoLoop
    /\ UNCHANGED <<cacheVars, dateAccuracy, enableBackgroundIndexing, initialLimit, bucket,
                   nextBatch, reindex, calls>>

\* POST /api/photos/refresh calls indexAllPhotos()
Refresh(r) ==
    /\ r /= "startup"
    /\ run[r].pc = "idle"
    /\ MayCall
    /\ calls' = calls + 1
    /\ run' = [run EXCEPT ![r].pc = "listing"]
    /\ lastCall' = NoCall /\ lastReturn' = NoReturn /\ lastLoop' = NoLoop
    /\ UNCHANGED <<cacheVars, dateAccuracy, enableBackgroundIndexing, initialLimit, bucket, photos,
                   nextId, backgroundIndexing, backgroundIndexStats, bgLoops,
                   nextBatch, reindex, failures>>

\* the continuation of `await this.indexPhoto(object)` in the loop of lines
\* 50-62, once indexPhoto has returned or thrown
RunIndex(r) ==
    /\ run[r].pc = "loop"
    /\ run[r].out \in {"ok", "failed"}
    /\ RunProceed(r, Count(run[r], run[r].mediaObjects[run[r].i + 1], run[r].out))
    /\ lastLoop' = NoLoop
    /\ UNCHANGED <<cacheVars, dateAccuracy, enableBackgroundIndexing, initialLimit, bucket, nextBatch, reindex, calls>>

\* the EXIF bytes arrive: the suspended indexPhoto runs to its end
RunResume(r) ==
    /\ run[r].pc = "loop"
    /\ run[r].out = "suspended"
    /\ \E out \in {"ok", "failed"} :
          /\ indexPhotoResume(run[r].fetch, out)
          /\ run' = [run EXCEPT ![r].out = out, ![r].fetch = None]
    /\ lastReturn' = NoReturn
    /\ lastLoop' = NoLoop
    /\ UNCHANGED <<cacheVars, dateAccuracy, enableBackgroundIndexing, initialLimit, bucket,
                   backgroundIndexing, backgroundIndexStats, bgLoops, nextBatch, reindex, calls>>

(***************************************************************************)
(* The detached loop of startBackgroundIndexing, lines 102-124.            *)
(***************************************************************************)
\* a failure ends the loop
BgAfterAbort(loop, out) == IF out = "failed" THEN Len(loop.objects) + 1 ELSE loop.pos + 1

\* for (const object of objects): the inner try/catch keeps the loop going
BgAfter(loop, out) == loop.pos + 1

\* the flag is left as it is
FlagAfterLoopKept == backgroundIndexing

\* finally { this.backgroundIndexing = false }
FlagAfterLoop == FALSE

\* the continuation of `await this.indexPhoto(object)` in the detached loop:
\* count the object, then call indexPhoto for the next one or finish
BgIndex(n) ==
    /\ bgLoops[n].out \in {"ok", "failed"}
    /\ LET loop == bgLoops[n]
           out  == loop.out
           pos  == BgAfter(loop, out)
       IN  /\ backgroundIndexStats' =
                 [backgroundIndexStats EXCEPT
                     !.indexed = IF out = "ok" THEN @ + 1 ELSE @,
                     !.failed = IF out = "failed" THEN @ + 1 ELSE @]
           /\ IF pos <= Len(loop.objects)
              THEN /\ \E next \in Outcomes :
                         /\ indexPhoto(loop.objects[pos], next)
                         /\ bgLoops' = [bgLoops EXCEPT ![n] =
                                           [loop EXCEPT !.pos = pos, !.out = next,
                                                        !.fetch = FetchOf(loop.objects[pos], next)]]
                   /\ lastLoop' = NoLoop
                   /\ UNCHANGED backgroundIndexing
              ELSE /\ bgLoops' = RemoveAt(bgLoops, n)
                   /\ backgroundIndexing' = FlagAfterLoop
                   /\ lastLoop' = [finished |-> TRUE,
                                   initialIndexed |-> loop.launch.initialIndexed,
                                   initialFailed |-> loop.launch.initialFailed,
                                   count |-> Len(loop.objects)]
                   /\ NoCallMade
    /\ lastReturn' = NoReturn
    /\ UNCHANGED <<cacheVars, dateAccuracy, enableBackgroundIndexing, initialLimit, bucket, run, nextBatch, reindex, calls>>

\* the EXIF bytes arrive: the suspended indexPhoto runs to its end
BgResume(n) ==
    /\ bgLoops[n].out = "suspended"
    /\ \E out \in {"ok", "failed"} :
          /\ indexPhotoResume(bgLoops[n].fetch, out)
          /\ bgLoops' = [bgLoops EXCEPT ![n].out = out, ![n].fetch = None]
    /\ lastReturn' = NoReturn
    /\ lastLoop' = NoLoop
    /\ UNCHANGED <<cacheVars, dateAccuracy, enableBackgroundIndexing, initialLimit, bucket,
                   backgroundIndexing, backgroundIndexStats, run, nextBatch, reindex, calls>>

\* getBackgroundIndexingStatus()
getBackgroundIndexingStatus ==
    [isIndexing |-> backgroundIndexing,
     indexed |-> backgroundIndexStats.indexed,
     failed |-> backgroundIndexStats.failed]

(***************************************************************************)
(* PhotoIndexerService.indexNextBatch.                                     *)
(***************************************************************************)
IdleBatch == [pc |-> "idle", batchSize |-> 0, toIndex |-> <<>>, total |-> 0, i |-> 0,
              indexed |-> 0, failed |-> 0, out |-> "none", fetch |-> None,
              processed |-> <<>>, listed |-> 0]

\* database.getAllPhotos() mapped to the set of indexed keys
indexedKeys == {r.s3Key : r \in photos}

\* every media object counts as unindexed
UnindexedAll(mediaObjects) == mediaObjects

\* mediaObjects.filter((obj) => !indexedKeys.has(obj.key))
Unindexed(mediaObjects) == SelectSeq(mediaObjects, LAMBDA o : o.key \notin indexedKeys)

BatchReturn(rec) ==
    /\ nextBatch' = IdleBatch
    /\ lastReturn' = [kind |-> "batch", limit |-> 0, given |-> Len(rec.toIndex),
                      listed |-> rec.listed, processed |-> rec.processed,
                      remaining |-> <<>>,
                      total |-> rec.total, indexed |-> rec.indexed,
                      failed |-> rec.failed,
                      backgroundIndexing |-> FALSE, started |-> FALSE,
                      query |-> None, page |-> <<>>, hasMore |-> FALSE,
                          objects |-> <<>>]
    /\ NoCallMade

\* the head of the for loop of lines 194-202
BatchProceed(rec) ==
    IF rec.i < Len(rec.toIndex)
    THEN LET object == rec.toIndex[rec.i + 1] IN
         \E out \in Outcomes :
            /\ indexPhoto(object, out)
            /\ nextBatch' = [rec EXCEPT !.out = out, !.fetch = FetchOf(object, out)]
            /\ lastReturn' = NoReturn
    ELSE BatchReturn(rec)

\* the call up to the first await inside the loop
BatchList(batchSize) ==
    /\ nextBatch.pc = "idle"
    /\ MayCall
    /\ calls' = calls + 1
    /\ LET mediaObjects == FilterMedia(listAllObjects)
           unindexedObjects == SortMedia(Unindexed(mediaObjects))
           toIndex == SliceTo(unindexedObjects, batchSize)
           rec == [IdleBatch EXCEPT !.pc = "loop", !.batchSize = batchSize,
                                    !.toIndex = toIndex,
                                    !.total = Len(mediaObjects),
                                    !.listed = ListedMedia]
       IN  BatchProceed(rec)
    /\ lastLoop' = NoLoop
    /\ UNCHANGED <<cacheVars, dateAccuracy, enableBackgroundIndexing, initialLimit, bucket,
                   backgroundIndexing, backgroundIndexStats, bgLoops, run, reindex>>

\* the continuation of `await this.indexPhoto(object)`
BatchIndex ==
    /\ nextBatch.pc = "loop"
    /\ nextBatch.out \in {"ok", "failed"}
    /\ BatchProceed(Count(nextBatch, nextBatch.toIndex[nextBatch.i + 1], nextBatch.out))
    /\ lastLoop' = NoLoop
    /\ UNCHANGED <<cacheVars, dateAccuracy, enableBackgroundIndexing, initialLimit, bucket,
                   backgroundIndexing, backgroundIndexStats, bgLoops, run, reindex,
                   calls>>

\* the EXIF bytes arrive: the suspended indexPhoto runs to its end
BatchResume ==
    /\ nextBatch.pc = "loop"
    /\ nextBatch.out = "suspended"
    /\ \E out \in {"ok", "failed"} :
          /\ indexPhotoResume(nextBatch.fetch, out)
          /\ nextBatch' = [nextBatch EXCEPT !.out = out, !.fetch = None]
    /\ lastReturn' = NoReturn
    /\ lastLoop' = NoLoop
    /\ UNCHANGED <<cacheVars, dateAccuracy, enableBackgroundIndexing, initialLimit, bucket,
                   backgroundIndexing, backgroundIndexStats, bgLoops, run, reindex,
                   calls>>

(***************************************************************************)
(* PhotoIndexerService.reindexPhoto / indexPhotoByKey: the same body.      *)
(***************************************************************************)
IdleReindex == [pc |-> "idle", fetch |-> None]

\* the first listed object, whatever its key
FindObjectAny(objects, s3Key) ==
    IF Len(objects) > 0 THEN Some(objects[1]) ELSE None

\* objects.find((obj) => obj.key === s3Key)
FindObject(objects, s3Key) ==
    IF \E i \in 1..Len(objects) : objects[i].key = s3Key
    THEN Some(objects[CHOOSE i \in 1..Len(objects) : objects[i].key = s3Key])
    ELSE None

ReindexReturn(out) ==
    lastReturn' = [NoReturn EXCEPT !.kind = "reindex",
                                   !.indexed = IF out = "ok" THEN 1 ELSE 0,
                                   !.failed = IF out = "ok" THEN 0 ELSE 1]

ReindexPhoto(s3Key) ==
    /\ reindex.pc = "idle"
    /\ MayCall
    /\ calls' = calls + 1
    /\ LET found == FindObject(listAllObjects, s3Key) IN
       IF ~IsSome(found)
       THEN \* throw new Error(`Object not found: ...`)
            /\ reindex' = IdleReindex
            /\ ReindexReturn("notfound")
            /\ lastCall' = NoCall
            /\ UNCHANGED <<photos, nextId, failures>>
       ELSE \E out \in Outcomes :
               /\ indexPhoto(Get(found), out)
               /\ IF out = "suspended"
                  THEN /\ reindex' = [pc |-> "loop", fetch |-> FetchOf(Get(found), out)]
                       /\ lastReturn' = NoReturn
                  ELSE /\ reindex' = IdleReindex
                       /\ ReindexReturn(out)
    /\ lastLoop' = NoLoop
    /\ UNCHANGED <<cacheVars, dateAccuracy, enableBackgroundIndexing, initialLimit, bucket,
                   backgroundIndexing, backgroundIndexStats, bgLoops, run, nextBatch>>

ReindexResume ==
    /\ reindex.pc = "loop"
    /\ \E out \in {"ok", "failed"} :
          /\ indexPhotoResume(reindex.fetch, out)
          /\ reindex' = IdleReindex
          /\ ReindexReturn(out)
    /\ lastLoop' = NoLoop
    /\ UNCHANGED <<cacheVars, dateAccuracy, enableBackgroundIndexing, initialLimit, bucket,
                   backgroundIndexing, backgroundIndexStats, bgLoops, run, nextBatch,
                   calls>>

(***************************************************************************)
(* The other writers of the table and of the bucket.                       *)
(***************************************************************************)
Quiet == lastCall' = NoCall /\ lastReturn' = NoReturn /\ lastLoop' = NoLoop

\* an object of the bucket is overwritten: new LastModified, new size
PutObject(key, version) ==
    /\ Events < MaxEvents
    /\ bucket' = {o \in bucket : o.key /= key}
                   \cup {[key |-> key, size |-> version.size,
                          lastModified |-> DateOfMs(MaxLastModified + 1),
                          exif |-> version.exif]}
    /\ Quiet
    /\ UNCHANGED <<cacheVars, dateAccuracy, enableBackgroundIndexing, initialLimit, photos, nextId,
                   backgroundIndexing, backgroundIndexStats, bgLoops, run, nextBatch,
                   reindex, calls, failures>>

\* the data extractAndUpdateExif passes to updatePhotoExif
ExifUpdate(parsedExif) ==
    [exif |-> Some(ExifDataOf(parsedExif)),
     createdAt |-> IF IsSome(parsedExif.DateTimeOriginal)
                   THEN Some(toISOString(Get(parsedExif.DateTimeOriginal)))
                   ELSE None,
     width |-> parsedExif.ImageWidth, height |-> parsedExif.ImageHeight]

\* ImageProcessorService.extractAndUpdateExif on behalf of a request for a
\* photo whose record has no exif: parse the bytes, then updatePhotoExif
RefineExif(s3Key) ==
    /\ IsSome(getPhotoByS3Key(s3Key))
    /\ Get(getPhotoByS3Key(s3Key)).type = "photo"
    /\ ~IsSome(Get(getPhotoByS3Key(s3Key)).exif)
    /\ Parsed(ExifOfKey(s3Key))
    /\ photos' = updatePhotoExif(photos, s3Key, ExifUpdate(ParsedExif(ExifOfKey(s3Key))))
    /\ Quiet
    /\ UNCHANGED <<cacheVars, dateAccuracy, enableBackgroundIndexing, initialLimit, bucket, nextId,
                   backgroundIndexing, backgroundIndexStats, bgLoops, run, nextBatch,
                   reindex, calls, failures>>

\* the end of a thumbnail request: database.markAsCached(photo.id)
MarkCached(s3Key) ==
    /\ IsSome(getPhotoByS3Key(s3Key))
    /\ ~Get(getPhotoByS3Key(s3Key)).cached
    /\ photos' = markAsCached(photos, Get(getPhotoByS3Key(s3Key)).id)
    /\ Quiet
    /\ UNCHANGED <<cacheVars, dateAccuracy, enableBackgroundIndexing, initialLimit, bucket, nextId,
                   backgroundIndexing, backgroundIndexStats, bgLoops, run, nextBatch,
                   reindex, calls, failures>>

(***************************************************************************)
(* CacheManagerService (cacheManager.ts).  The file system is the function *)
(* files: the size of the file at a cache path, 0 when there is no file.   *)
(* An fs call takes effect in one step and its continuation runs in a      *)
(* later step.  cacheMap is the Map in insertion order.                    *)
(***************************************************************************)
\* config.cache.sizeLimit after parseSizeLimit, in bytes
sizeLimit == 10
\* evictIfNeeded stops at sizeLimit * 0.8
EvictTargetTenths == 8

CacheSizes == {"thumbnail", "preview", "original"}
\* the artifacts that clients request
CacheTargets == { [s3Key |-> KeyA, size |-> "preview"],
                  [s3Key |-> KeyB, size |-> "thumbnail"],
                  [s3Key |-> KeyB, size |-> "original"] }
\* the cache users: concurrent requests of getProcessedImage
Requests == {"r1", "r2"}

\* String.prototype.lastIndexOf('/'), 1-based; 0 when there is none
lastIndexOfSlash(s) ==
    IF \E i \in 1..Len(s) : s[i] = "/"
    THEN CHOOSE i \in 1..Len(s) : s[i] = "/" /\ \A j \in (i+1)..Len(s) : s[j] /= "/"
    ELSE 0

\* path.basename(s3Key)
basename(s3Key) == SubSeq(s3Key, lastIndexOfSlash(s3Key) + 1, Len(s3Key))

\* path.extname(filename): from the last dot, empty without a dot or when the
\* name starts with its only dot
extname(filename) ==
    IF lastIndexOfDot(filename) <= 1 THEN <<>>
    ELSE SubSeq(filename, lastIndexOfDot(filename), Len(filename))

\* md5(s3Key) cut to 8 hex digits; the position of the key in the listing
\* stands for the digest, which differs between the keys of the bucket
getHash(s3Key) == IndexIn(s3Key, KeyOrder)

suffixOf(size) ==
    CASE size = "thumbnail" -> <<"_","t","h","u","m","b">>
      [] size = "preview"   -> <<"_","p","r","e","v","i","e","w">>
      [] OTHER              -> <<>>

\* getCachePath: <dir of the size>/<hash>/<name><suffix><ext>
getCachePath(s3Key, size) ==
    LET filename == basename(s3Key)
        ext      == extname(filename)
        name     == SubSeq(filename, 1, Len(filename) - Len(ext))
    IN  [dir |-> size, hash |-> getHash(s3Key), file |-> name \o suffixOf(size) \o ext]

CachePaths == {getCachePath(k, s) : k \in {KeyA, KeyB, KeyC}, s \in CacheSizes}

\* data.length of the artifact of a size: what sharp makes of the original
\* buffer, or the original buffer itself
ArtifactLength(size, originalLength) ==
    CASE size = "thumbnail" -> 3
      [] size = "preview"   -> 6
      [] OTHER              -> originalLength

\* position of a path in the Map, 0 when the Map has no entry for it
PosOf(map, path) ==
    IF \E i \in 1..Len(map) : map[i].path = path
    THEN CHOOSE i \in 1..Len(map) : map[i].path = path
    ELSE 0

\* Map.prototype.set: a new key goes last, an old key keeps its place
MapSet(map, entry) ==
    IF PosOf(map, entry.path) = 0 THEN Append(map, entry)
    ELSE [map EXCEPT ![PosOf(map, entry.path)] = entry]

\* Map.prototype.delete
MapDelete(map, path) == SelectSeq(map, LAMBDA e : e.path /= path)

\* entries.sort((a, b) => a.accessTime - b.accessTime): a stable sort
RECURSIVE SortByAccessTime(_)
SortByAccessTime(s) ==
    IF s = <<>> THEN <<>>
    ELSE LET i == CHOOSE i \in 1..Len(s) :
                     /\ \A j \in 1..Len(s) : s[i].accessTime <= s[j].accessTime
                     /\ \A j \in 1..(i-1) : s[j].accessTime > s[i].accessTime
         IN  <<s[i]>> \o SortByAccessTime(RemoveAt(s, i))

RECURSIVE SumSizes(_)
SumSizes(s) == IF s = <<>> THEN 0 ELSE Head(s).size + SumSizes(Tail(s))

\* the bytes of the artifact files on disk
RECURSIVE SumFiles(_)
SumFiles(paths) ==
    IF paths = {} THEN 0
    ELSE LET p == CHOOSE p \in paths : TRUE IN files[p] + SumFiles(paths \ {p})

\* a call of getProcessedImage: where it is, its arguments, the cache path,
\* the id of the photo it read from the table, the length of the artifact,
\* the snapshot of evictIfNeeded and the outcome of its latest fs.unlink;
\* first tells whether no earlier call was made for the key, exifFailed
\* whether extractAndUpdateExif went into its catch.  The other handlers
\* keep their locals in the same record: photo (DELETE /api/photos/:id),
\* dirs (clearCache), thrown (generateThumbnail), objects and
\* continuationToken (listAllObjects)
IdleRequest == [pc |-> "idle", target |-> None, path |-> None, photoId |-> None,
                length |-> 0, entries |-> <<>>, unlinked |-> FALSE, first |-> FALSE,
                photo |-> None, dirs |-> <<>>, exifFailed |-> FALSE, thrown |-> FALSE,
                objects |-> <<>>, continuationToken |-> None]

NoPut == [done |-> FALSE, evicted |-> FALSE, exhausted |-> FALSE]
NoEvict == [entry |-> None, accessTime |-> 0, read |-> FALSE]
NoGet == [target |-> None, outcome |-> "none", exifFailed |-> FALSE]
NoRefine == [s3Key |-> None, data |-> None]

\* the observations a step that completes no put and evicts nothing leaves
CacheQuiet == lastPut' = NoPut /\ lastEvict' = NoEvict

\* the call of getProcessedImage of request r ends in this step: outcome is
\* "cached" (the bytes of the cache), "generated" or "failed" (it threw)
GetReturn(r, outcome) ==
    /\ requests' = [requests EXCEPT ![r] = IdleRequest]
    /\ lastGet' = [target |-> requests[r].target, outcome |-> outcome,
                   exifFailed |-> requests[r].exifFailed]

\* the loop goes on until nothing is left
AtEvictTargetZero(size) == size <= 0

\* currentSize <= sizeLimit * 0.8
AtEvictTarget(size) == 10 * size <= EvictTargetTenths * sizeLimit

\* getProcessedImage up to the await fs.readFile of getCachedFile: the
\* access time of the entry is set and hits is incremented before the file
\* is read
getCachedFile(r, target) ==
    /\ requests[r].pc = "idle"
    /\ cacheCalls < MaxRequests
    /\ cacheCalls' = cacheCalls + 1
    /\ LET cachePath == getCachePath(target.s3Key, target.size)
           pos == PosOf(cacheMap, cachePath)
       IN  /\ IF pos > 0
              THEN \E t \in {now, now + 1} :
                      /\ now' = t
                      /\ cacheMap' = [cacheMap EXCEPT ![pos].accessTime = t]
              ELSE UNCHANGED <<now, cacheMap>>
           /\ requests' = [requests EXCEPT ![r] =
                              [IdleRequest EXCEPT !.pc = "readFile",
                                                  !.target = Some(target),
                                                  !.path = Some(cachePath),
                                                  !.first = target.s3Key \notin fetched]]
    /\ hits' = hits + 1
    /\ fetched' = fetched \cup {target.s3Key}
    /\ lastGet' = NoGet
    /\ CacheQuiet
    /\ UNCHANGED <<indexVars, files, currentSize, misses, readSinceWrite, lastRefine>>

\* fs.readFile settles.  With the file: getCachedFile returns the buffer and
\* getProcessedImage returns it.  Without: the catch increments misses, null
\* is returned and getProcessedImage calls s3Client.getObjectBuffer.
ReadFile(r) ==
    /\ requests[r].pc = "readFile"
    /\ LET cachePath == Get(requests[r].path) IN
       IF files[cachePath] > 0
       THEN /\ GetReturn(r, "cached")
            /\ readSinceWrite' = IF PosOf(cacheMap, cachePath) > 0
                                 THEN readSinceWrite \cup {cachePath}
                                 ELSE readSinceWrite
            /\ UNCHANGED misses
       ELSE /\ requests' = [requests EXCEPT ![r].pc = "download"]
            /\ misses' = misses + 1
            /\ lastGet' = NoGet
            /\ UNCHANGED readSinceWrite
    /\ CacheQuiet
    /\ UNCHANGED <<indexVars, files, cacheMap, currentSize, hits, now, cacheCalls,
                   fetched, lastRefine>>

\* getStats(): hitRate is the fraction hits / totalRequests, kept as a pair
getStats ==
    LET totalRequests == hits + misses IN
    [totalSize |-> currentSize,
     itemCount |-> Len(cacheMap),
     limit     |-> sizeLimit,
     hitRate   |-> IF totalRequests > 0
                   THEN [num |-> hits, den |-> totalRequests]
                   ELSE [num |-> 0, den |-> 1]]

\* photo && !photo.exif
NeedsExif(photo) == IsSome(photo) /\ ~IsSome(Get(photo).exif)

\* s3Client.getObjectBuffer settles with the bytes of the object: the photo
\* of the key is read from the table, and extractAndUpdateExif is called when
\* it has no exif, up to its await exifr.parse; otherwise the artifact is
\* generated
Download(r) ==
    /\ requests[r].pc = "download"
    /\ LET target == Get(requests[r].target)
           photo  == getPhotoByS3Key(target.s3Key)
       IN  requests' = [requests EXCEPT
              ![r].pc = IF NeedsExif(photo) THEN "exif" ELSE "generate",
              ![r].photoId = IF IsSome(photo) THEN Some(Get(photo).id) ELSE None,
              ![r].length = ArtifactLength(target.size, ObjectOf(target.s3Key).size)]
    /\ lastGet' = NoGet
    /\ CacheQuiet
    /\ UNCHANGED <<indexVars, files, cacheMap, currentSize, hits, misses, now, cacheCalls,
                   readSinceWrite, fetched, lastRefine>>

\* exifr.parse settles in extractAndUpdateExif with the EXIF content of the
\* object: without a result nothing is updated, with one updatePhotoExif is
\* called; then the artifact is generated
ExtractExif(r) ==
    /\ requests[r].pc = "exif"
    /\ LET s3Key == Get(requests[r].target).s3Key
           parse == ExifOfKey(s3Key)
       IN  IF Parsed(parse)
           THEN /\ photos' = updatePhotoExif(photos, s3Key, ExifUpdate(ParsedExif(parse)))
                /\ lastRefine' = [s3Key |-> Some(s3Key),
                                  data |-> Some(ExifUpdate(ParsedExif(parse)))]
           ELSE UNCHANGED <<photos, lastRefine>>
    /\ requests' = [requests EXCEPT ![r].pc = "generate"]
    /\ lastGet' = NoGet
    /\ CacheQuiet
    /\ UNCHANGED <<indexOther, files, cacheMap, currentSize, hits, misses, now, cacheCalls,
                   readSinceWrite, fetched>>

\* the table a failed refinement leaves: a part of the fields written
FailedUpdatePartial(table, s3Key, data) ==
    updatePhotoExif(table, s3Key, [data EXCEPT !.createdAt = None])

\* the table a failed refinement leaves: exifr.parse threw before the
\* update, new Date(...).toISOString() threw before it, or the one UPDATE
\* statement of updatePhotoExif failed and wrote nothing
FailedUpdate(table, s3Key, data) == table

\* extractAndUpdateExif goes into its catch, which logs a warning: the
\* parse or the update threw; then the artifact is generated
ExtractExifFail(r) ==
    /\ requests[r].pc = "exif"
    /\ LET s3Key == Get(requests[r].target).s3Key
           data  == ExifUpdate(ParsedExif(ExifOfKey(s3Key)))
       IN  photos' = FailedUpdate(photos, s3Key, data)
    /\ requests' = [requests EXCEPT ![r].pc = "generate", ![r].exifFailed = TRUE]
    /\ lastGet' = NoGet
    /\ CacheQuiet
    /\ UNCHANGED <<indexOther, files, cacheMap, currentSize, hits, misses, now, cacheCalls,
                   readSinceWrite, fetched, lastRefine>>

\* the artifact is generated and saveToCac is called: fs.mkdir and
\* fs.writeFile take effect
WriteFile(r) ==
    /\ requests[r].pc = "generate"
    /\ files' = [files EXCEPT ![Get(requests[r].path)] = requests[r].length]
    /\ requests' = [requests EXCEPT ![r].pc = "written"]
    /\ lastGet' = NoGet
    /\ CacheQuiet
    /\ UNCHANGED <<indexVars, cacheMap, currentSize, hits, misses, now, cacheCalls,
                   readSinceWrite, fetched, lastRefine>>

\* the file a failed generation leaves: a part of the artifact
FailedArtifactPartial(fs, path, length) == [fs EXCEPT ![path] = length - 1]

\* the file a failed generation leaves: processImage throws before saveToCac
\* is called, so the directory is as it was
FailedArtifact(fs, path, length) == fs

\* sharp rejects in processImage: 'Failed to process image' is thrown out of
\* getProcessedImage.  An original is not processed.
GenerateFail(r) ==
    /\ requests[r].pc = "generate"
    /\ Get(requests[r].target).size /= "original"
    /\ files' = FailedArtifact(files, Get(requests[r].path), requests[r].length)
    /\ GetReturn(r, "failed")
    /\ CacheQuiet
    /\ UNCHANGED <<indexVars, cacheMap, currentSize, hits, misses, now, cacheCalls,
                   readSinceWrite, fetched, lastRefine>>

\* saveToCac of request r returns, and getProcessedImage with it: the photo
\* read before is marked as cached when the artifact is a thumbnail;
\* evicted tells whether evictIfNeeded went into its loop, exhausted whether
\* the loop ran to the end of its snapshot
PutReturn(r, evicted, exhausted) ==
    /\ GetReturn(r, "generated")
    /\ lastPut' = [done |-> TRUE, evicted |-> evicted, exhausted |-> exhausted]
    /\ photos' = IF Get(requests[r].target).size = "thumbnail" /\ IsSome(requests[r].photoId)
                 THEN markAsCached(photos, Get(requests[r].photoId))
                 ELSE photos

\* the head of the loop of evictIfNeeded: leave at the target or at the end
\* of the snapshot, otherwise call fs.unlink for the next entry
EvictLoop(r, entries, size) ==
    IF entries = <<>> \/ AtEvictTarget(size)
    THEN PutReturn(r, TRUE, entries = <<>>)
    ELSE /\ requests' = [requests EXCEPT ![r].pc = "unlink", ![r].entries = entries,
                                         ![r].unlinked = FALSE]
         /\ lastPut' = NoPut
         /\ lastGet' = NoGet
         /\ UNCHANGED photos

\* this.currentSize += fileSize
AddSize(size, length) == size + length

\* saveToCac after await fs.writeFile: the size is added, the entry is set,
\* and evictIfNeeded runs up to its first await
PutAccount(r) ==
    /\ requests[r].pc = "written"
    /\ \E t \in {now, now + 1} :
          LET cachePath == Get(requests[r].path)
              size == AddSize(currentSize, requests[r].length)
              map  == MapSet(cacheMap, [path |-> cachePath, size |-> requests[r].length,
                                        accessTime |-> t])
          IN  /\ now' = t
              /\ currentSize' = size
              /\ cacheMap' = map
              /\ readSinceWrite' = readSinceWrite \ {cachePath}
              /\ IF size <= sizeLimit
                 THEN PutReturn(r, FALSE, FALSE)
                 ELSE EvictLoop(r, SortByAccessTime(map), size)
    /\ lastEvict' = NoEvict
    /\ UNCHANGED <<indexOther, files, hits, misses, cacheCalls, fetched, lastRefine>>

\* fs.unlink(entry.path) takes effect: the file is removed, or there is no
\* file and the call will reject
UnlinkFile(r) ==
    /\ requests[r].pc = "unlink"
    /\ LET path == Head(requests[r].entries).path IN
       IF files[path] > 0
       THEN /\ files' = [files EXCEPT ![path] = 0]
            /\ requests' = [requests EXCEPT ![r].pc = "unlinked", ![r].unlinked = TRUE]
       ELSE /\ requests' = [requests EXCEPT ![r].pc = "unlinked", ![r].unlinked = FALSE]
            /\ UNCHANGED files
    /\ lastGet' = NoGet
    /\ CacheQuiet
    /\ UNCHANGED <<indexVars, cacheMap, currentSize, hits, misses, now, cacheCalls,
                   readSinceWrite, fetched, lastRefine>>

\* the continuation of await fs.unlink: on success the size is subtracted
\* and the entry deleted, on failure the catch logs; then the loop goes on
EvictContinue(r) ==
    /\ requests[r].pc = "unlinked"
    /\ LET entry == Head(requests[r].entries)
           size  == IF requests[r].unlinked THEN currentSize - entry.size ELSE currentSize
           pos   == PosOf(cacheMap, entry.path)
       IN  /\ currentSize' = size
           /\ cacheMap' = IF requests[r].unlinked THEN MapDelete(cacheMap, entry.path)
                          ELSE cacheMap
           /\ lastEvict' = IF requests[r].unlinked /\ pos > 0
                           THEN [entry |-> Some(entry.path),
                                 accessTime |-> cacheMap[pos].accessTime,
                                 read |-> entry.path \in readSinceWrite]
                           ELSE NoEvict
           /\ readSinceWrite' = IF requests[r].unlinked
                                THEN readSinceWrite \ {entry.path}
                                ELSE readSinceWrite
           /\ EvictLoop(r, Tail(requests[r].entries), size)
    /\ UNCHANGED <<indexOther, files, hits, misses, now, cacheCalls, fetched, lastRefine>>

(***************************************************************************)
(* The cache at start.  initializeCache scans the cache directory: every   *)
(* file found becomes an entry with its size and its atime, and            *)
(* currentSize is their sum.  The directory is empty, or holds the         *)
(* thumbnails an earlier run of the server left.                           *)
(***************************************************************************)
ColdFiles == [p \in CachePaths |-> 0]
WarmEntries ==
    << [path |-> getCachePath(KeyA, "thumbnail"), size |-> ArtifactLength("thumbnail", 0),
        accessTime |-> 1],
       [path |-> getCachePath(KeyB, "thumbnail"), size |-> ArtifactLength("thumbnail", 0),
        accessTime |-> 2],
       [path |-> getCachePath(KeyC, "thumbnail"), size |-> ArtifactLength("thumbnail", 0),
        accessTime |-> 3] >>
WarmFiles ==
    [p \in CachePaths |->
        IF PosOf(WarmEntries, p) > 0 THEN WarmEntries[PosOf(WarmEntries, p)].size ELSE 0]

\* calculateCurrentSize over the files found
CacheStart(found, entries) ==
    /\ files = found
    /\ cacheMap = entries
    /\ currentSize = SumSizes(entries)
    /\ hits = 0
    /\ misses = 0
    /\ now = Len(entries)
    /\ requests = [r \in Requests |-> IdleRequest]
    /\ cacheCalls = 0
    /\ readSinceWrite = {}
    /\ lastPut = NoPut
    /\ lastEvict = NoEvict
    /\ fetched = {}
    /\ lastGet = NoGet
    /\ lastRefine = NoRefine

(***************************************************************************)
(* The indexing specification.                                             *)
(***************************************************************************)
\* The deployments explored: every date accuracy mode, background indexing
\* enabled and disabled, a preload count of zero (no limit), below and at the
\* number of media objects less one.
Configurations ==
    { [dateAccuracy |-> "folders",      enableBackgroundIndexing |-> TRUE,  preloadCount |-> 2],
      [dateAccuracy |-> "exif",         enableBackgroundIndexing |-> TRUE,  preloadCount |-> 1],
      [dateAccuracy |-> "none",         enableBackgroundIndexing |-> FALSE, preloadCount |-> 1],
      [dateAccuracy |-> "folders-exif", enableBackgroundIndexing |-> TRUE,  preloadCount |-> 0] }

IndexStart(c) ==
    /\ dateAccuracy = c.dateAccuracy
    /\ enableBackgroundIndexing = c.enableBackgroundIndexing
    /\ initialLimit = c.preloadCount
    /\ bucket = InitialBucket
    /\ photos = {}
    /\ nextId = [k \in Keys |-> 0]
    /\ backgroundIndexing = FALSE
    /\ backgroundIndexStats = [indexed |-> 0, failed |-> 0]
    /\ bgLoops = <<>>
    /\ run = [r \in Runners |-> IF r = "startup" THEN [IdleRun EXCEPT !.pc = "listing"]
                                 ELSE IdleRun]
    /\ nextBatch = IdleBatch
    /\ reindex = IdleReindex
    /\ calls = 0
    /\ failures = 0
    /\ lastCall = NoCall
    /\ lastReturn = NoReturn
    /\ lastLoop = NoLoop

\* the server starts over an empty cache directory
Init ==
    /\ \E c \in Configurations : IndexStart(c)
    /\ CacheStart(ColdFiles, <<>>)

Next ==
    \/ \E r \in Runners : Refresh(r)
    \/ \E r \in Runners : RunList(r)
    \/ \E r \in Runners : RunIndex(r)
    \/ \E r \in Runners : RunResume(r)
    \/ \E n \in 1..Len(bgLoops) : BgIndex(n)
    \/ \E n \in 1..Len(bgLoops) : BgResume(n)
    \/ \E batchSize \in BatchSizes : BatchList(batchSize)
    \/ BatchIndex
    \/ BatchResume
    \/ \E s3Key \in ReindexKeys : ReindexPhoto(s3Key)
    \/ ReindexResume
    \/ \E key \in PutKeys, version \in ObjectVersions : PutObject(key, version)
    \/ \E s3Key \in RequestKeys : RefineExif(s3Key)
    \/ \E s3Key \in RequestKeys : MarkCached(s3Key)

Spec == Init /\ [][Next]_vars

(***************************************************************************)
(* The cache specification: requests for artifacts of indexed photos.  The *)
(* routes look the photo up in the table before they call                  *)
(* getProcessedImage, so the requests come after the startup pass has      *)
(* indexed the media objects of the bucket: every media object has its row *)
(* as indexPhoto builds it, and no call of the indexer is in flight.  Over  *)
(* the thumbnails of an earlier run the rows are marked as cached, or they *)
(* are new: DELETE /api/photos/:id removes a row and keeps the cache       *)
(* files, and an upload of the key indexes it again.                       *)
(***************************************************************************)
IndexedTable(cached) ==
    { [RowOfPhoto(BuildPhoto(S3Object(o), None, "nofetch", [key |-> o.key, n |-> 1]))
          EXCEPT !.cached = IF cached THEN 1 ELSE 0] :
         o \in {b \in InitialBucket : isImage(b.key) \/ isVideo(b.key)} }

IndexedStart(c, cached) ==
    /\ dateAccuracy = c.dateAccuracy
    /\ enableBackgroundIndexing = c.enableBackgroundIndexing
    /\ initialLimit = c.preloadCount
    /\ bucket = InitialBucket
    /\ photos = IndexedTable(cached)
    /\ nextId = [k \in Keys |-> IF isImage(k) \/ isVideo(k) THEN 1 ELSE 0]
    /\ backgroundIndexing = FALSE
    /\ backgroundIndexStats = [indexed |-> 0, failed |-> 0]
    /\ bgLoops = <<>>
    /\ run = [r \in Runners |-> IdleRun]
    /\ nextBatch = IdleBatch
    /\ reindex = IdleReindex
    /\ calls = 0
    /\ failures = 0
    /\ lastCall = NoCall
    /\ lastReturn = NoReturn
    /\ lastLoop = NoLoop

CacheInit ==
    \/ /\ IndexedStart(CHOOSE c \in Configurations : c.dateAccuracy = "folders", FALSE)
       /\ \/ CacheStart(ColdFiles, <<>>)
          \/ CacheStart(WarmFiles, WarmEntries)
    \/ /\ IndexedStart(CHOOSE c \in Configurations : c.dateAccuracy = "folders", TRUE)
       /\ CacheStart(WarmFiles, WarmEntries)

CacheNext ==
    \/ \E r \in Requests, target \in CacheTargets : getCachedFile(r, target)
    \/ \E r \in Requests : ReadFile(r)
    \/ \E r \in Requests : Download(r)
    \/ \E r \in Requests : ExtractExif(r)
    \/ \E r \in Requests : WriteFile(r)
    \/ \E r \in Requests : GenerateFail(r)
    \/ \E r \in Requests : PutAccount(r)
    \/ \E r \in Requests : UnlinkFile(r)
    \/ \E r \in Requests : EvictContinue(r)

CacheSpec == CacheInit /\ [][CacheNext]_vars

(***************************************************************************)
(* Calls of getProcessedImage whose EXIF extraction can fail.              *)
(***************************************************************************)
ExifTargets == {[s3Key |-> KeyA, size |-> "preview"], [s3Key |-> KeyB, size |-> "thumbnail"]}

ExifNext ==
    \/ \E r \in Requests, target \in ExifTargets : getCachedFile(r, target)
    \/ \E r \in Requests : ReadFile(r)
    \/ \E r \in Requests : Download(r)
    \/ \E r \in Requests : ExtractExif(r)
    \/ \E r \in Requests : ExtractExifFail(r)
    \/ \E r \in Requests : WriteFile(r)
    \/ \E r \in Requests : GenerateFail(r)
    \/ \E r \in Requests : PutAccount(r)
    \/ \E r \in Requests : UnlinkFile(r)
    \/ \E r \in Requests : EvictContinue(r)

ExifSpec == CacheInit /\ [][ExifNext]_vars

(***************************************************************************)
(* DELETE /api/photos/:photoId over an indexed table and a cache           *)
(* directory.                                                              *)
(***************************************************************************)
\* the ids a client has seen in a page of the table
DeleteIds == {[key |-> k, n |-> 1] : k \in {KeyA, KeyB, KeyC}}

\* the handler up to its await s3Client.deleteObject; without a photo of
\* the id it answers 404
DeletePhoto(r, photoId) ==
    /\ requests[r].pc = "idle"
    /\ LET photo == getPhotoById(photoId) IN
       IF ~IsSome(photo)
       THEN /\ lastGet' = [NoGet EXCEPT !.outcome = "notfound"]
            /\ UNCHANGED requests
       ELSE /\ lastGet' = NoGet
            /\ requests' = [requests EXCEPT ![r] =
                               [IdleRequest EXCEPT !.pc = "deleteObject",
                                                   !.photoId = Some(photoId),
                                                   !.photo = photo]]
    /\ CacheQuiet
    /\ UNCHANGED <<indexVars, files, cacheMap, currentSize, hits, misses, now, cacheCalls,
                   readSinceWrite, fetched, lastRefine>>

\* s3Client.deleteObject settles: the object is gone from the bucket, the
\* row of the id is deleted and the handler answers success
DeleteObject(r) ==
    /\ requests[r].pc = "deleteObject"
    /\ bucket' = {o \in bucket : o.key /= Get(requests[r].photo).s3Key}
    /\ photos' = deletePhoto(photos, Get(requests[r].photoId))
    /\ requests' = [requests EXCEPT ![r] = IdleRequest]
    /\ lastGet' = [NoGet EXCEPT !.outcome = "deleted"]
    /\ CacheQuiet
    /\ UNCHANGED <<dateAccuracy, enableBackgroundIndexing, initialLimit, nextId,
                   backgroundIndexing, backgroundIndexStats, bgLoops, run, nextBatch,
                   reindex, calls, failures, lastCall, lastReturn, lastLoop,
                   files, cacheMap, currentSize, hits, misses, now, cacheCalls,
                   readSinceWrite, fetched, lastRefine>>

\* s3Client.deleteObject throws: the handler answers 500 and the row stays
DeleteObjectFail(r) ==
    /\ requests[r].pc = "deleteObject"
    /\ requests' = [requests EXCEPT ![r] = IdleRequest]
    /\ lastGet' = [NoGet EXCEPT !.outcome = "failed"]
    /\ CacheQuiet
    /\ UNCHANGED <<indexVars, files, cacheMap, currentSize, hits, misses, now, cacheCalls,
                   readSinceWrite, fetched, lastRefine>>

DeleteNext ==
    \/ \E r \in Requests, photoId \in DeleteIds : DeletePhoto(r, photoId)
    \/ \E r \in Requests : DeleteObject(r)
    \/ \E r \in Requests : DeleteObjectFail(r)

DeleteSpec == CacheInit /\ [][DeleteNext]_vars

(***************************************************************************)
(* S3ClientService.listAllObjects page by page: the service answers a      *)
(* ListObjectsV2 request with at most MaxKeys items after the position of  *)
(* the token, and with a next token when items are left.                   *)
(***************************************************************************)
\* MaxKeys: 1000, scaled to the bucket of the model
MaxKeys == 2

\* the Contents item of an object
ContentsItem(o) == [Key |-> Some(o.key), Size |-> Some(o.size),
                    LastModified |-> Some(o.lastModified)]

\* the items of the bucket in the order of the service
AllContents ==
    LET present == SelectSeq(ListingOrder, LAMBDA k : \E o \in bucket : o.key = k)
    IN  [i \in 1..Len(present) |-> ContentsItem(ObjectOf(present[i]))]

\* if (item.Key && item.Size !== undefined && item.LastModified) objects.push
PushItems(objects, contents) ==
    LET kept == SelectSeq(contents, LAMBDA item : IsSome(item.Key) /\ IsSome(item.Size)
                                                  /\ IsSome(item.LastModified))
    IN  objects \o [i \in 1..Len(kept) |-> [key |-> Get(kept[i].Key), size |-> Get(kept[i].Size),
                                            lastModified |-> Get(kept[i].LastModified)]]

\* the loop ends after the first page
MorePagesNever(token) == FALSE

\* while (continuationToken)
MorePages(token) == IsSome(token)

\* the call up to its first await this.client.send
ListCall(r) ==
    /\ requests[r].pc = "idle"
    /\ requests' = [requests EXCEPT ![r] = [IdleRequest EXCEPT !.pc = "send"]]
    /\ lastGet' = NoGet
    /\ lastReturn' = NoReturn
    /\ CacheQuiet
    /\ UNCHANGED <<dateAccuracy, enableBackgroundIndexing, initialLimit, bucket, photos, nextId,
                   backgroundIndexing, backgroundIndexStats, bgLoops, run, nextBatch,
                   reindex, calls, failures, lastCall, lastLoop,
                   files, cacheMap, currentSize, hits, misses, now, cacheCalls,
                   readSinceWrite, fetched, lastRefine>>

\* a response arrives: its items are pushed, and the next request is sent
\* with the token of the response, or the objects are returned
ListPage(r) ==
    /\ requests[r].pc = "send"
    /\ LET from == IF IsSome(requests[r].continuationToken)
                   THEN Get(requests[r].continuationToken) ELSE 0
           left == Len(AllContents) - from
       IN  \E n \in Min(1, left)..Min(MaxKeys, left) :
              LET contents == SubSeq(AllContents, from + 1, from + n)
                  NextContinuationToken == IF from + n < Len(AllContents)
                                           THEN Some(from + n) ELSE None
                  objects == PushItems(requests[r].objects, contents)
              IN  IF MorePages(NextContinuationToken)
                  THEN /\ requests' = [requests EXCEPT
                                         ![r].objects = objects,
                                         ![r].continuationToken = NextContinuationToken]
                       /\ lastReturn' = NoReturn
                  ELSE /\ requests' = [requests EXCEPT ![r] = IdleRequest]
                       /\ lastReturn' = [NoReturn EXCEPT !.kind = "list", !.objects = objects]
    /\ lastGet' = NoGet
    /\ CacheQuiet
    /\ UNCHANGED <<dateAccuracy, enableBackgroundIndexing, initialLimit, bucket, photos, nextId,
                   backgroundIndexing, backgroundIndexStats, bgLoops, run, nextBatch,
                   reindex, calls, failures, lastCall, lastLoop,
                   files, cacheMap, currentSize, hits, misses, now, cacheCalls,
                   readSinceWrite, fetched, lastRefine>>

\* a request fails: the catch throws 'Failed to list S3 objects'
ListFail(r) ==
    /\ requests[r].pc = "send"
    /\ requests' = [requests EXCEPT ![r] = IdleRequest]
    /\ lastReturn' = [NoReturn EXCEPT !.kind = "list", !.failed = 1]
    /\ lastGet' = NoGet
    /\ CacheQuiet
    /\ UNCHANGED <<dateAccuracy, enableBackgroundIndexing, initialLimit, bucket, photos, nextId,
                   backgroundIndexing, backgroundIndexStats, bgLoops, run, nextBatch,
                   reindex, calls, failures, lastCall, lastLoop,
                   files, cacheMap, currentSize, hits, misses, now, cacheCalls,
                   readSinceWrite, fetched, lastRefine>>

ListNext ==
    \/ \E r \in Requests : ListCall(r)
    \/ \E r \in Requests : ListPage(r)
    \/ \E r \in Requests : ListFail(r)

ListSpec == CacheInit /\ [][ListNext]_vars

(***************************************************************************)
(* VideoProcessorService.generateThumbnail: the temporary files of a call  *)
(* in os.tmpdir().  fs.unlink removes a file that exists and throws for    *)
(* one that does not.                                                      *)
(***************************************************************************)
VideoKeys == {KeyC}

\* path.join(tmpdir(), `video-${randomUUID()}`): the call of request r has
\* its own identifier
tempVideoPath(r) == [dir |-> "tmp", hash |-> 0, file |-> <<"video", r>>]
\* path.join(tmpdir(), `thumb-${randomUUID()}.jpg`)
tempThumbPath(r) == [dir |-> "tmp", hash |-> 0, file |-> <<"thumb", r, ".jpg">>]

TempPaths == {tempVideoPath(r) : r \in Requests} \cup {tempThumbPath(r) : r \in Requests}

\* the finally block runs on the way out of the try only
CleanupOnSuccess(thrown) == IF thrown THEN "return" ELSE "unlinkVideo"

\* the finally block runs after the try and after the catch
Cleanup(thrown) == "unlinkVideo"

\* the try block is left: normally, or through the catch, which throws
\* 'Failed to generate video thumbnail'; the finally block calls fs.unlink
\* for the temporary video
LeaveTry(r, thrown) ==
    IF Cleanup(thrown) = "return"
    THEN GetReturn(r, "failed")
    ELSE /\ requests' = [requests EXCEPT ![r].pc = Cleanup(thrown), ![r].thrown = thrown]
         /\ lastGet' = NoGet

\* the call up to its await s3Client.getObjectBuffer
generateThumbnail(r, s3Key) ==
    /\ requests[r].pc = "idle"
    /\ requests' = [requests EXCEPT ![r] =
                       [IdleRequest EXCEPT !.pc = "getObject",
                                           !.target = Some([s3Key |-> s3Key,
                                                            size |-> "thumbnail"])]]
    /\ lastGet' = NoGet
    /\ CacheQuiet
    /\ UNCHANGED <<indexVars, files, cacheMap, currentSize, hits, misses, now, cacheCalls,
                   readSinceWrite, fetched, lastRefine>>

\* getObjectBuffer settles: with the bytes, and fs.writeFile is called for
\* the temporary video; or with an error
VideoGetObject(r) ==
    /\ requests[r].pc = "getObject"
    /\ \E ok \in BOOLEAN :
          IF ok
          THEN /\ requests' = [requests EXCEPT
                                 ![r].pc = "writeVideo",
                                 ![r].length = ObjectOf(Get(requests[r].target).s3Key).size]
               /\ lastGet' = NoGet
          ELSE LeaveTry(r, TRUE)
    /\ CacheQuiet
    /\ UNCHANGED <<indexVars, files, cacheMap, currentSize, hits, misses, now, cacheCalls,
                   readSinceWrite, fetched, lastRefine>>

\* fs.writeFile settles: the temporary video is written and ffmpeg is
\* started; or it fails and leaves no file or a part of it
VideoWrite(r) ==
    /\ requests[r].pc = "writeVideo"
    /\ \E written \in {0, requests[r].length - 1, requests[r].length} :
          /\ files' = [files EXCEPT ![tempVideoPath(r)] = written]
          /\ IF written = requests[r].length
             THEN /\ requests' = [requests EXCEPT ![r].pc = "ffmpeg"]
                  /\ lastGet' = NoGet
             ELSE LeaveTry(r, TRUE)
    /\ CacheQuiet
    /\ UNCHANGED <<indexVars, cacheMap, currentSize, hits, misses, now, cacheCalls,
                   readSinceWrite, fetched, lastRefine>>

\* ffmpeg ends: the frame is written and fs.readFile is called; or it
\* reports an error and leaves no frame or a part of it
Screenshot(r) ==
    /\ requests[r].pc = "ffmpeg"
    /\ \E written \in {0, ArtifactLength("thumbnail", 0) - 1, ArtifactLength("thumbnail", 0)} :
          /\ files' = [files EXCEPT ![tempThumbPath(r)] = written]
          /\ IF written = ArtifactLength("thumbnail", 0)
             THEN /\ requests' = [requests EXCEPT ![r].pc = "readThumb"]
                  /\ lastGet' = NoGet
             ELSE LeaveTry(r, TRUE)
    /\ CacheQuiet
    /\ UNCHANGED <<indexVars, cacheMap, currentSize, hits, misses, now, cacheCalls,
                   readSinceWrite, fetched, lastRefine>>

\* fs.readFile of the frame settles, with the bytes or with an error
ReadThumb(r) ==
    /\ requests[r].pc = "readThumb"
    /\ \E ok \in BOOLEAN : LeaveTry(r, ~ok)
    /\ CacheQuiet
    /\ UNCHANGED <<indexVars, files, cacheMap, currentSize, hits, misses, now, cacheCalls,
                   readSinceWrite, fetched, lastRefine>>

\* what generateThumbnail gives its caller after the finally block
ThumbReturn(r) == GetReturn(r, IF requests[r].thrown THEN "failed" ELSE "generated")

\* fs.unlink(tempVideoPath) settles: the file is removed and fs.unlink is
\* called for the frame; or it throws into the empty catch of the cleanup
UnlinkVideo(r) ==
    /\ requests[r].pc = "unlinkVideo"
    /\ IF files[tempVideoPath(r)] > 0
       THEN /\ files' = [files EXCEPT ![tempVideoPath(r)] = 0]
            /\ requests' = [requests EXCEPT ![r].pc = "unlinkThumb"]
            /\ lastGet' = NoGet
       ELSE /\ ThumbReturn(r)
            /\ UNCHANGED files
    /\ CacheQuiet
    /\ UNCHANGED <<indexVars, cacheMap, currentSize, hits, misses, now, cacheCalls,
                   readSinceWrite, fetched, lastRefine>>

\* fs.unlink(tempThumbPath) settles, removing the frame or throwing into the
\* empty catch, and generateThumbnail returns or throws
UnlinkThumb(r) ==
    /\ requests[r].pc = "unlinkThumb"
    /\ files' = [files EXCEPT ![tempThumbPath(r)] = 0]
    /\ ThumbReturn(r)
    /\ CacheQuiet
    /\ UNCHANGED <<indexVars, cacheMap, currentSize, hits, misses, now, cacheCalls,
                   readSinceWrite, fetched, lastRefine>>

ThumbInit ==
    /\ IndexedStart(CHOOSE c \in Configurations : c.dateAccuracy = "folders", FALSE)
    /\ CacheStart([p \in CachePaths \cup TempPaths |-> 0], <<>>)

ThumbNext ==
    \/ \E r \in Requests, s3Key \in VideoKeys : generateThumbnail(r, s3Key)
    \/ \E r \in Requests : VideoGetObject(r)
    \/ \E r \in Requests : VideoWrite(r)
    \/ \E r \in Requests : Screenshot(r)
    \/ \E r \in Requests : ReadThumb(r)
    \/ \E r \in Requests : UnlinkVideo(r)
    \/ \E r \in Requests : UnlinkThumb(r)

ThumbSpec == ThumbInit /\ [][ThumbNext]_vars

(***************************************************************************)
(* GET /api/photos: DatabaseService.getPhotos and getTotalCount over an    *)
(* indexed table.                                                          *)
(***************************************************************************)
MaxLimit == 2
MaxOffset == 3

\* the characters of an ISO string that decide a comparison of two of them
IsoKey(s) ==
    IF "ms" \in DOMAIN s.iso THEN <<1970, 1, 1, s.iso.ms>>
    ELSE <<s.iso.year, s.iso.month, s.iso.day, 0>>

\* createdAt <= ? of SQLite on two ISO strings
IsoLeq(a, b) ==
    LET x == IsoKey(a)
        y == IsoKey(b)
    IN  \/ x = y
        \/ \E i \in 1..4 : x[i] < y[i] /\ \A j \in 1..(i - 1) : x[j] = y[j]

\* the startDate and endDate a client sends
FilterDates == {None, Some(toISOString(DateYMD(2000, 1, 1))),
                Some(toISOString(DateYMD(2023, 1, 1)))}

Queries == [limit : 1..MaxLimit, offset : 0..MaxOffset, startDate : FilterDates,
            endDate : FilterDates, sortOrder : {"asc", "desc"}]

\* WHERE 1=1 AND createdAt >= ? AND createdAt <= ?
Matching(table, q) ==
    {r \in table : /\ IsSome(q.startDate) => IsoLeq(Get(q.startDate), r.createdAt)
                   /\ IsSome(q.endDate) => IsoLeq(r.createdAt, Get(q.endDate))}

\* ORDER BY createdAt ASC | DESC
RECURSIVE OrderByCreatedAt(_, _)
OrderByCreatedAt(rows, sortOrder) ==
    IF rows = {} THEN <<>>
    ELSE LET first == CHOOSE r \in rows : \A o \in rows :
                         IF sortOrder = "asc" THEN IsoLeq(r.createdAt, o.createdAt)
                         ELSE IsoLeq(o.createdAt, r.createdAt)
         IN  <<first>> \o OrderByCreatedAt(rows \ {first}, sortOrder)

\* SELECT * FROM photos WHERE ... ORDER BY ... LIMIT ? OFFSET ?
getPhotos(table, q) ==
    LET rows == OrderByCreatedAt(Matching(table, q), q.sortOrder)
    IN  [i \in 1..(Min(q.offset + q.limit, Len(rows)) - Min(q.offset, Len(rows)))
            |-> rowToPhoto(rows[q.offset + i])]

\* SELECT COUNT(*) as count FROM photos: the route passes no filter
getTotalCount(table, q) == Cardinality(table)

\* the handler: the page, the total and hasMore
GetPhotos(q) ==
    /\ LET page  == getPhotos(photos, q)
           total == getTotalCount(photos, q)
       IN  lastReturn' = [NoReturn EXCEPT !.kind = "page", !.query = Some(q), !.page = page,
                                          !.total = total,
                                          !.hasMore = (q.offset + Len(page) < total)]
    /\ lastCall' = NoCall
    /\ lastLoop' = NoLoop
    /\ UNCHANGED <<cacheVars, dateAccuracy, enableBackgroundIndexing, initialLimit, bucket,
                   photos, nextId, backgroundIndexing, backgroundIndexStats, bgLoops, run,
                   nextBatch, reindex, calls, failures>>

PageNext == \E q \in Queries : GetPhotos(q)

PageSpec == CacheInit /\ [][PageNext]_vars

(***************************************************************************)
(* CacheManagerService.clearCache alongside calls of getProcessedImage.    *)
(* fs.rm is taken to succeed; fs.mkdir changes no file.                    *)
(***************************************************************************)
\* const dirs = [this.thumbnailDir, this.previewDir, this.originalDir]
ClearDirs == <<"thumbnail", "preview", "original">>

ClearTargets == {[s3Key |-> KeyA, size |-> "preview"]}

\* fs.rm(dir, { recursive: true, force: true })
RemoveDir(fs, dir) == [p \in DOMAIN fs |-> IF p.dir = dir THEN 0 ELSE fs[p]]

\* POST /api/cache/clear up to the first await fs.rm
clearCache(r) ==
    /\ requests[r].pc = "idle"
    /\ requests' = [requests EXCEPT ![r] = [IdleRequest EXCEPT !.pc = "rm", !.dirs = ClearDirs]]
    /\ lastGet' = NoGet
    /\ CacheQuiet
    /\ UNCHANGED <<indexVars, files, cacheMap, currentSize, hits, misses, now, cacheCalls,
                   readSinceWrite, fetched, lastRefine>>

\* fs.rm of the next directory settles and fs.mkdir is called
ClearRm(r) ==
    /\ requests[r].pc = "rm"
    /\ files' = RemoveDir(files, Head(requests[r].dirs))
    /\ requests' = [requests EXCEPT ![r].pc = "mkdir"]
    /\ lastGet' = NoGet
    /\ CacheQuiet
    /\ UNCHANGED <<indexVars, cacheMap, currentSize, hits, misses, now, cacheCalls,
                   readSinceWrite, fetched, lastRefine>>

\* the table after a clear that resets the cached flag of every record
ClearedTableUnmarked(table) == {[row EXCEPT !.cached = 0] : row \in table}

\* the table after the reset of clearCache: currentSize, cacheMap and the
\* memory cache are reset, and no statement is run on the database
ClearedTable(table) == table

\* fs.mkdir settles: fs.rm is called for the next directory, or the
\* accounting is reset (currentSize = 0, cacheMap.clear()) and clearCache
\* returns
ClearMkdir(r) ==
    /\ requests[r].pc = "mkdir"
    /\ IF Len(requests[r].dirs) > 1
       THEN /\ requests' = [requests EXCEPT ![r].pc = "rm", ![r].dirs = Tail(requests[r].dirs)]
            /\ lastGet' = NoGet
            /\ UNCHANGED <<currentSize, cacheMap, readSinceWrite, photos>>
       ELSE /\ requests' = [requests EXCEPT ![r] = IdleRequest]
            /\ lastGet' = [NoGet EXCEPT !.outcome = "cleared"]
            /\ currentSize' = 0
            /\ cacheMap' = <<>>
            /\ readSinceWrite' = {}
            /\ photos' = ClearedTable(photos)
    /\ CacheQuiet
    /\ UNCHANGED <<indexOther, files, hits, misses, now, cacheCalls, fetched, lastRefine>>

ClearNext ==
    \/ \E r \in Requests, target \in ClearTargets : getCachedFile(r, target)
    \/ \E r \in Requests : ReadFile(r)
    \/ \E r \in Requests : Download(r)
    \/ \E r \in Requests : ExtractExif(r)
    \/ \E r \in Requests : WriteFile(r)
    \/ \E r \in Requests : GenerateFail(r)
    \/ \E r \in Requests : PutAccount(r)
    \/ \E r \in Requests : UnlinkFile(r)
    \/ \E r \in Requests : EvictContinue(r)
    \/ \E r \in Requests : clearCache(r)
    \/ \E r \in Requests : ClearRm(r)
    \/ \E r \in Requests : ClearMkdir(r)

ClearSpec == CacheInit /\ [][ClearNext]_vars

(***************************************************************************)
(* The folder date specification: extractDateFromPath applied, through     *)
(* reindexPhoto in mode folders, to the one object of a bucket whose key   *)
(* is drawn from the folder layouts.                                       *)
(***************************************************************************)
FolderObject(key) ==
    [key |-> key, size |-> 1, lastModified |-> DateOfMs(InitialLastModified),
     exif |-> "undefined"]

FolderInit ==
    /\ dateAccuracy = "folders"
    /\ enableBackgroundIndexing = FALSE
    /\ initialLimit = 0
    /\ \E key \in FolderKeys :
          /\ bucket = {FolderObject(key)}
          /\ nextId = [k \in {key} |-> 0]
    /\ photos = {}
    /\ backgroundIndexing = FALSE
    /\ backgroundIndexStats = [indexed |-> 0, failed |-> 0]
    /\ bgLoops = <<>>
    /\ run = [r \in Runners |-> IdleRun]
    /\ nextBatch = IdleBatch
    /\ reindex = IdleReindex
    /\ calls = 0
    /\ failures = 0
    /\ lastCall = NoCall
    /\ lastReturn = NoReturn
    /\ lastLoop = NoLoop
    /\ CacheStart(ColdFiles, <<>>)

FolderNext == \E s3Key \in FolderKeys : ReindexPhoto(s3Key)

FolderSpec == FolderInit /\ [][FolderNext]_vars

(***************************************************************************)
(* The refinement specification: updatePhotoExif applied to tables of      *)
(* indexed and refined photos, for keys with and without a row, with data  *)
(* in which any of the fields is defined or not.                           *)
(***************************************************************************)
RefineKeys == {KeyA, KeyN}
RefineData ==
    [ exif : {None,
              Some([cameraMake |-> Some("Nikon"), exposureTime |-> None]),
              Some([cameraMake |-> None, exposureTime |-> Some(8)])},
      createdAt : {None, Some(toISOString(DateYMD(2021, 1, 1)))},
      width : {None, Some(50)},
      height : {None, Some(60)} ]

RefineInit ==
    /\ \E cached \in BOOLEAN :
          IndexedStart(CHOOSE c \in Configurations : c.dateAccuracy = "folders-exif", cached)
    /\ CacheStart(ColdFiles, <<>>)

\* a call of database.updatePhotoExif(s3Key, data)
UpdatePhotoExif(s3Key, data) ==
    /\ photos' = updatePhotoExif(photos, s3Key, data)
    /\ lastRefine' = [s3Key |-> Some(s3Key), data |-> Some(data)]
    /\ UNCHANGED <<indexOther, files, cacheMap, currentSize, hits, misses, now, requests,
                   cacheCalls, readSinceWrite, lastPut, lastEvict, fetched, lastGet>>

RefineNext == \E s3Key \in RefineKeys, data \in RefineData : UpdatePhotoExif(s3Key, data)

RefineSpec == RefineInit /\ [][RefineNext]_vars

(***************************************************************************)
(* Properties of the indexer.                                              *)
(***************************************************************************)
RowsOf(table, s3Key) == {r \in table : r.s3Key = s3Key}

\* C1: at most one background indexing loop is active at any time, the flag
\* is set exactly while a loop is active, and a step starts a loop only when
\* the flag is false and sets the flag in that same step.
C1_SingleBackgroundLoop ==
    /\ [](Len(bgLoops) <= 1 /\ (backgroundIndexing <=> Len(bgLoops) = 1))
    /\ [][Len(bgLoops') > Len(bgLoops) => ~backgroundIndexing /\ backgroundIndexing']_vars

\* a call of indexAllPhotos asked for a background loop while one was
\* active, and the active loop is still the only one
C1_Witness ==
    /\ lastReturn.kind = "run"
    /\ lastReturn.backgroundIndexing
    /\ ~lastReturn.started
    /\ Len(bgLoops) = 1

\* C4: no two rows of the photos table have the same s3Key, whatever the
\* interleaving of the initial pass, the background loop, indexNextBatch,
\* reindexPhoto and the refinement of a request.
C4_UniqueS3Key ==
    \A p, q \in photos : p.s3Key = q.s3Key => p = q

\* two calls of indexPhoto for the same key both found no row and both
\* inserted with an id of their own; the table has one row for the key
C4_Witness ==
    /\ failures = 0
    /\ \E k \in Keys : nextId[k] >= 2 /\ Cardinality(RowsOf(photos, k)) = 1

\* C5: a call of indexPhoto for an object whose lastModified is the
\* modifiedAt of the stored row leaves the table as it was, with one row
\* for the key.
C5_UnchangedObjectIsSkipped ==
    [][(IsSome(lastCall'.object) /\ lastCall'.sameMarker)
          => /\ photos' = photos
             /\ Cardinality(RowsOf(photos', Get(lastCall'.object).key)) = 1]_vars

\* an object was indexed a second time with the marker it was stored with
C5_Witness ==
    /\ IsSome(lastCall.object)
    /\ lastCall.sameMarker
    /\ lastCall.outcome = "ok"

\* did this step complete a call of indexPhoto for a key that had a row with
\* another marker and another size?
ReindexedChanged ==
    /\ IsSome(lastCall'.object)
    /\ lastCall'.outcome = "ok"
    /\ ~lastCall'.sameMarker
    /\ \E r \in photos :
          /\ r.s3Key = Get(lastCall'.object).key
          /\ r.size /= Get(lastCall'.object).size
          /\ r.modifiedAt /= toISOString(Get(lastCall'.object).lastModified)

\* C6: indexing a key that has a row with a different marker and a different
\* size sets the row's size and modifiedAt to those of the object, keeps the
\* row's id and leaves one row for the key.
C6_ChangedObjectUpdatesInPlace ==
    [][ReindexedChanged
          => LET object == Get(lastCall'.object)
                 old    == CHOOSE r \in photos : r.s3Key = object.key
             IN  /\ Cardinality(RowsOf(photos', object.key)) = 1
                 /\ \A r \in RowsOf(photos', object.key) :
                       /\ r.size = object.size
                       /\ r.modifiedAt = toISOString(object.lastModified)
                       /\ r.id = old.id]_vars

\* the row of an overwritten object carries the new size and the new marker
C6_Witness ==
    /\ IsSome(lastCall.object)
    /\ lastCall.outcome = "ok"
    /\ ~lastCall.sameMarker
    /\ lastCall.hadRow
    /\ Get(lastCall.object) \notin InitialBucket
    /\ \E r \in photos :
          /\ r.s3Key = Get(lastCall.object).key
          /\ r.size = Get(lastCall.object).size
          /\ r.modifiedAt = toISOString(Get(lastCall.object).lastModified)
          /\ r.id = [key |-> r.s3Key, n |-> 1]

\* is the sequence of objects in non-increasing order of lastModified?
NewestFirst(s) ==
    \A i, j \in 1..Len(s) : i < j => s[i].lastModified.ms >= s[j].lastModified.ms

\* a call indexAllPhotos returned that had a limit below the number of media
\* objects listed
LimitedReturn ==
    /\ lastReturn.kind = "run"
    /\ 0 < lastReturn.limit
    /\ lastReturn.limit < lastReturn.listed

\* C7: indexAllPhotos with a limit above zero and below the number of media
\* objects listed processes exactly `limit` objects, newest first and none
\* older than an object it leaves out, and returns total = the number of
\* media objects listed and indexed + failed = limit; when it returns, the
\* loop it started for the objects left out is running, is still at its
\* first object and has counted none of them.
C7_InitialPassNewestFirst ==
    LimitedReturn =>
        /\ Len(lastReturn.processed) = lastReturn.limit
        /\ NewestFirst(lastReturn.processed)
        /\ \A i \in 1..Len(lastReturn.processed), j \in 1..Len(lastReturn.remaining) :
              lastReturn.processed[i].lastModified.ms
                 >= lastReturn.remaining[j].lastModified.ms
        /\ Len(lastReturn.processed) + Len(lastReturn.remaining) = lastReturn.listed
        /\ lastReturn.total = lastReturn.listed
        /\ lastReturn.indexed + lastReturn.failed = lastReturn.limit
        /\ lastReturn.started =>
              /\ Len(bgLoops) = 1
              /\ bgLoops[1].objects = lastReturn.remaining
              /\ bgLoops[1].pos = 1
              /\ backgroundIndexing
              /\ backgroundIndexStats = [indexed |-> 0, failed |-> 0]

\* the call of the end-to-end scenario returned: two of three objects
\* processed and the third handed to the background loop
C7_Witness ==
    /\ LimitedReturn
    /\ lastReturn.limit = 2
    /\ lastReturn.total = 3
    /\ lastReturn.indexed = 2
    /\ lastReturn.started

\* C8: when the background loop launched by indexAllPhotos has processed
\* its objects without a failure, the status reports failed 0 and indexed
\* equal to the objects indexed by the initial pass and the loop together.
C8_StatusCountsBothPasses ==
    (lastLoop.finished /\ lastLoop.initialFailed = 0 /\ backgroundIndexStats.failed = 0)
        => /\ getBackgroundIndexingStatus.failed = 0
           /\ getBackgroundIndexingStatus.indexed
                 = lastLoop.initialIndexed + lastLoop.count

\* C9: every pass counts each object it was given as indexed or as failed:
\* indexAllPhotos and indexNextBatch return with indexed + failed equal to
\* the number of objects of their loop, all of them processed, and the
\* background loop ends with indexed + failed equal to the number of objects
\* it was started with.
C9_FailureIsCountedAndPassContinues ==
    /\ lastReturn.kind \in {"run", "batch"} =>
          /\ Len(lastReturn.processed) = lastReturn.given
          /\ lastReturn.indexed + lastReturn.failed = lastReturn.given
    /\ lastLoop.finished =>
          backgroundIndexStats.indexed + backgroundIndexStats.failed = lastLoop.count

\* a pass returned after one failure and at least one success
C9_Witness ==
    /\ lastReturn.kind \in {"run", "batch"}
    /\ lastReturn.failed = 1
    /\ lastReturn.indexed >= 1

(***************************************************************************)
(* Properties of the cache.                                                *)
(***************************************************************************)
\* no call of the cache is in flight
CacheAtRest == \A r \in Requests : requests[r].pc = "idle"

\* C2: when a call of saveToCac returns, its eviction check included,
\* currentSize is at most sizeLimit.
C2_SizeWithinLimitAfterPut ==
    lastPut.done => currentSize <= sizeLimit

\* C3: whenever no cache operation is in progress, currentSize is the sum of
\* the sizes of the entries of cacheMap and the number of bytes of the
\* artifact files on disk.
C3_TrackedSizeMatchesDisk ==
    CacheAtRest =>
        /\ currentSize = SumSizes(cacheMap)
        /\ currentSize = SumFiles(CachePaths)

\* C10: an entry that was read through getCachedFile after it was written is
\* not evicted while cacheMap keeps an entry with an older access time.
C10_EvictsLeastRecentlyUsed ==
    (IsSome(lastEvict.entry) /\ lastEvict.read) =>
        \A i \in 1..Len(cacheMap) : cacheMap[i].accessTime >= lastEvict.accessTime

\* an eviction pass ended in the latest step
PassEnded == lastPut.done /\ lastPut.evicted

\* C11 as stated: whenever an eviction pass finishes, the tracked size lies
\* strictly between the low-water mark and the limit.
C11_SizeBetweenMarkAndLimit ==
    PassEnded =>
        /\ 10 * currentSize > EvictTargetTenths * sizeLimit
        /\ currentSize < sizeLimit

\* C11 amended: an eviction pass removes a file only when it found the
\* tracked size above the low-water mark at the head of its loop, and when
\* it finishes, the tracked size is at most the low-water mark unless the
\* pass went through its whole snapshot.
C11_StopsAtLowWaterMark ==
    /\ [](PassEnded =>
             (10 * currentSize <= EvictTargetTenths * sizeLimit \/ lastPut.exhausted))
    /\ [][\A r \in Requests :
             (requests'[r].pc = "unlink" /\ requests[r].pc /= "unlink")
                => 10 * currentSize' > EvictTargetTenths * sizeLimit]_vars

\* a pass stopped below the low-water mark with entries left in the cache
\* and in its snapshot
C11_Witness ==
    /\ PassEnded
    /\ ~lastPut.exhausted
    /\ 10 * currentSize <= EvictTargetTenths * sizeLimit
    /\ currentSize > 0
    /\ Len(cacheMap) >= 1

\* C12: when a put that went into eviction returns, cacheMap has at least
\* one entry.
C12_EvictionLeavesAnEntry ==
    PassEnded => Len(cacheMap) >= 1

\* C17: a call of getProcessedImage goes into extractAndUpdateExif only when
\* it is the first call ever made for its key.
C17_ExtractionOnlyOnFirstFetch ==
    \A r \in Requests : requests[r].pc = "exif" => requests[r].first

\* C19: when getProcessedImage returns the bytes of a thumbnail, from the
\* cache or newly generated, and the key has a row, the row is marked as
\* cached.
C19_ThumbnailReturnedIsMarkedCached ==
    (/\ lastGet.outcome \in {"cached", "generated"}
     /\ Get(lastGet.target).size = "thumbnail"
     /\ IsSome(getPhotoByS3Key(Get(lastGet.target).s3Key)))
        => Get(getPhotoByS3Key(Get(lastGet.target).s3Key)).cached

\* the paths and sizes of the entries of a Map
EntriesOf(map) == {[path |-> map[i].path, size |-> map[i].size] : i \in 1..Len(map)}
\* the cached flag of every row of a table
CachedFlags(table) == {[s3Key |-> p.s3Key, cached |-> p.cached] : p \in table}

\* C20: a call of getProcessedImage that ends after a cache miss without
\* having written its artifact ends with the error, for its own target, and
\* neither that step nor any earlier step of the call writes a file, adds or
\* removes an entry, changes currentSize or changes a cached flag.
C20_FailedGenerationLeavesCache ==
    [][\A r \in Requests :
          /\ (requests[r].pc = "generate" /\ requests'[r].pc = "idle")
                => /\ lastGet'.target = requests[r].target
                   /\ lastGet'.outcome = "failed"
                   /\ lastPut' = NoPut
          /\ (/\ requests'[r] /= requests[r]
              /\ requests[r].pc \in {"idle", "readFile", "download", "exif", "generate"}
              /\ requests'[r].pc \in {"readFile", "download", "exif", "generate", "idle"})
                => /\ files' = files
                   /\ EntriesOf(cacheMap') = EntriesOf(cacheMap)
                   /\ currentSize' = currentSize
                   /\ CachedFlags(photos') = CachedFlags(photos)]_vars

\* the generation of a thumbnail failed for a photo that is not marked as
\* cached, in a cache that has entries
C20_Witness ==
    /\ lastGet.outcome = "failed"
    /\ Get(lastGet.target).size = "thumbnail"
    /\ ~Get(getPhotoByS3Key(Get(lastGet.target).s3Key)).cached
    /\ Len(cacheMap) >= 1
    /\ files[getCachePath(Get(lastGet.target).s3Key, "thumbnail")] = 0

\* C13: a call of indexAllPhotos that asks for a background run while one
\* is active leaves backgroundIndexing set, leaves backgroundIndexStats and
\* the objects and the position of the active loop as they were, starts no
\* loop and calls indexPhoto for none of the objects it passed.
C13_SecondStartChangesNothing ==
    [][(/\ lastReturn'.kind = "run"
        /\ lastReturn'.backgroundIndexing
        /\ ~lastReturn'.started)
          => /\ backgroundIndexing /\ backgroundIndexing'
             /\ backgroundIndexStats' = backgroundIndexStats
             /\ bgLoops' = bgLoops
             /\ lastCall' = NoCall
             /\ photos' = photos]_vars

\* a call asked for a background run over objects of its own while the
\* active loop had counted an object and had more to go
C13_Witness ==
    /\ lastReturn.kind = "run"
    /\ lastReturn.backgroundIndexing
    /\ ~lastReturn.started
    /\ lastReturn.remaining /= <<>>
    /\ Len(bgLoops) = 1
    /\ backgroundIndexStats.indexed >= 1
    /\ bgLoops[1].pos <= Len(bgLoops[1].objects)

\* C14: in mode none, a call of indexPhoto that upserts a record (the
\* marker of the object is not the stored one, or there is no record)
\* leaves the record of the key with createdAt equal to the lastModified of
\* the object.
C14_NoneModeCreatedAtIsLastModified ==
    [][(/\ dateAccuracy = "none"
        /\ IsSome(lastCall'.object)
        /\ lastCall'.outcome = "ok"
        /\ ~lastCall'.sameMarker)
          => \A p \in photos' :
                p.s3Key = Get(lastCall'.object).key
                   => p.createdAt = toISOString(Get(lastCall'.object).lastModified)]_vars

\* C15: in mode exif, a call of indexPhoto that inserts the record of a
\* photo whose EXIF fetch threw, gave nothing or gave no date leaves
\* createdAt equal to the date of the folders when the key has a year and
\* to the lastModified of the object otherwise.
C15_ExifFallsBackToFolders ==
    [][(/\ dateAccuracy = "exif"
        /\ IsSome(lastCall'.object)
        /\ lastCall'.outcome = "ok"
        /\ ~lastCall'.hadRow
        /\ lastCall'.parse \in {"throw", "undefined", "nodate"})
          => \A p \in photos' :
                p.s3Key = Get(lastCall'.object).key
                   => p.createdAt = toISOString(FolderDateOr(Get(lastCall'.object)))]_vars

\* The date of a key as the specification of mode folders states it.
\* a four-digit number in 1900..2099 starts at position i
StatedYearAt(s, i) ==
    /\ i + 3 <= Len(s)
    /\ \A j \in i..(i+3) : IsDigit(s[j])
    /\ Num4(s, i) \in 1900..2099
    /\ (i = 1 \/ ~IsDigit(s[i-1]))
    /\ (i + 4 > Len(s) \/ ~IsDigit(s[i+4]))

\* the two-digit value in lo..hi that follows a separator at position i;
\* 0 when there is none
StatedValueAt(s, i, lo, hi) ==
    IF /\ i + 2 <= Len(s)
       /\ s[i] \in {"/", "-"}
       /\ IsDigit(s[i+1]) /\ IsDigit(s[i+2])
       /\ Num2(s[i+1], s[i+2]) \in lo..hi
    THEN Num2(s[i+1], s[i+2])
    ELSE 0

StatedFolderDate(s3Key) ==
    LET yi    == FirstPos(s3Key, StatedYearAt)
        month == StatedValueAt(s3Key, yi + 4, 1, 12)
        day   == IF month = 0 THEN 0 ELSE StatedValueAt(s3Key, yi + 7, 1, 31)
    IN  IF yi = 0 THEN None
        ELSE Some([year |-> Num4(s3Key, yi),
                   month |-> IF month = 0 THEN 1 ELSE month,
                   day |-> IF day = 0 THEN 1 ELSE day])

\* C16: in mode folders the record of a newly indexed key has the createdAt
\* of the date whose year is the first four-digit year in 1900..2099 of the
\* key, whose month is the 01-12 value right after that year and a
\* separator, else January, and whose day is the value right after that
\* month and a separator, else the 1st; without such a year createdAt is
\* the lastModified of the object.
C16_FolderDateIsYearMonthDay ==
    dateAccuracy = "folders" =>
        \A p \in photos :
           p.createdAt = IF IsSome(StatedFolderDate(p.s3Key))
                         THEN toISOString(Get(StatedFolderDate(p.s3Key)))
                         ELSE p.modifiedAt

\* C18: a call of updatePhotoExif(s3Key, data) creates and removes no row,
\* leaves every row of another key as it was, and in the row of the key
\* changes only the columns of the fields that data defines, among the EXIF
\* columns, createdAt, width and height, to the values given; with no
\* defined field, or for a key without a row, the table is unchanged.
C18_RefineChangesOnlySuppliedFields ==
    [][IsSome(lastRefine'.s3Key) =>
         LET s3Key == Get(lastRefine'.s3Key)
             data  == Get(lastRefine'.data)
             given(field) ==
                CASE field = "cameraMake" ->
                        IF IsSome(data.exif) THEN Get(data.exif).cameraMake ELSE None
                  [] field = "exposureTime" ->
                        IF IsSome(data.exif) THEN Get(data.exif).exposureTime ELSE None
                  [] field = "createdAt" -> data.createdAt
                  [] field = "width" -> data.width
                  [] field = "height" -> data.height
             fields == {"cameraMake", "exposureTime", "createdAt", "width", "height"}
         IN  /\ {p.s3Key : p \in photos'} = {p.s3Key : p \in photos}
             /\ Cardinality(photos') = Cardinality(photos)
             /\ \A p \in photos : p.s3Key /= s3Key => p \in photos'
             /\ \A p \in photos, q \in photos' :
                   (p.s3Key = s3Key /\ q.s3Key = s3Key) =>
                      /\ \A c \in (DOMAIN p) \ fields : q[c] = p[c]
                      /\ \A c \in {"cameraMake", "exposureTime", "width", "height"} :
                            q[c] = IF IsSome(given(c)) THEN given(c) ELSE p[c]
                      /\ q.createdAt = IF IsSome(given("createdAt"))
                                       THEN Get(given("createdAt")) ELSE p.createdAt
             /\ ((\A c \in fields : ~IsSome(given(c))) \/ RowsOf(photos, s3Key) = {})
                   => photos' = photos]_vars

\* data with a date and without exif was applied to a row that had EXIF
\* columns set: the row has the date and keeps the columns
C18_Witness ==
    /\ IsSome(lastRefine.s3Key)
    /\ ~IsSome(Get(lastRefine.data).exif)
    /\ ~IsSome(Get(lastRefine.data).width)
    /\ IsSome(Get(lastRefine.data).createdAt)
    /\ \E p \in photos :
          /\ p.s3Key = Get(lastRefine.s3Key)
          /\ IsSome(p.cameraMake) /\ IsSome(p.width)
          /\ p.createdAt = Get(Get(lastRefine.data).createdAt)

\* the listed photo and video objects whose key has no record
Difference == {S3Object(o) : o \in {b \in bucket : (isImage(b.key) \/ isVideo(b.key))
                                                    /\ RowsOf(photos, b.key) = {}}}
\* the elements of a sequence
Elements(s) == {s[i] : i \in 1..Len(s)}
\* the rows of a table that are not rows of another
RowsChanged(before, after) == (after \ before) \cup (before \ after)

\* C24: a call of indexNextBatch(batchSize) takes min(batchSize, |D|)
\* objects of D, the listed media objects without a record, none of them
\* older than an object of D it leaves; it calls indexPhoto for exactly
\* these, each once and in order, and counts each as indexed or failed; its
\* steps write and change no record of another key; with D empty it returns
\* indexed 0 and failed 0 at once.
C24_IndexNextTakesNewestUnindexed ==
    [][/\ (nextBatch.pc = "idle" /\ nextBatch'.pc = "loop")
            => /\ Len(nextBatch'.toIndex) = Min(nextBatch'.batchSize, Cardinality(Difference))
               /\ Cardinality(Elements(nextBatch'.toIndex)) = Len(nextBatch'.toIndex)
               /\ Elements(nextBatch'.toIndex) \subseteq Difference
               /\ \A t \in Elements(nextBatch'.toIndex) :
                     \A d \in Difference \ Elements(nextBatch'.toIndex) :
                        t.lastModified.ms >= d.lastModified.ms
               /\ lastCall'.object = Some(nextBatch'.toIndex[1])
       /\ (nextBatch.pc = "idle" /\ lastReturn'.kind = "batch")
            => /\ Difference = {}
               /\ lastReturn'.indexed = 0 /\ lastReturn'.failed = 0
               /\ photos' = photos
       /\ (nextBatch.pc = "idle" /\ calls' = calls + 1 /\ nextBatch'.pc = "idle"
              /\ Difference = {} /\ lastReturn'.kind = "batch")
            => lastReturn'.processed = <<>>
       /\ (nextBatch.pc = "loop" /\ lastReturn'.kind = "batch")
            => /\ lastReturn'.processed = nextBatch.toIndex
               /\ lastReturn'.indexed + lastReturn'.failed = Len(nextBatch.toIndex)
       /\ (nextBatch.pc = "loop" /\ nextBatch'.pc = "loop" /\ nextBatch'.i = nextBatch.i + 1)
            => lastCall'.object = Some(nextBatch.toIndex[nextBatch'.i + 1])
       /\ (nextBatch' /= nextBatch)
            => \A r \in RowsChanged(photos, photos') :
                  \E t \in Elements(nextBatch.toIndex) \cup Elements(nextBatch'.toIndex) :
                     t.key = r.s3Key]_vars

\* a call with batchSize 1 indexed the newest of several objects without a
\* record and left the others without one
C24_Witness ==
    /\ lastReturn.kind = "batch"
    /\ lastReturn.given = 1
    /\ lastReturn.indexed = 1
    /\ Difference /= {}
    /\ \A d \in Difference : d.lastModified.ms <= lastReturn.processed[1].lastModified.ms

\* the keys of the current listing
ListedKeys == {o.key : o \in bucket}

\* C25: a targeted re-index of a key that no listed object has ends with an
\* error to its caller, without a call of indexPhoto, and leaves every
\* record of the index as it was.
C25_AbsentKeyFailsAndChangesNothing ==
    [][\A s3Key \in FolderKeys \ ListedKeys :
          ReindexPhoto(s3Key)
             => /\ lastReturn'.kind = "reindex"
                /\ lastReturn'.failed = 1
                /\ lastReturn'.indexed = 0
                /\ lastCall' = NoCall
                /\ reindex' = IdleReindex
                /\ photos' = photos]_vars

\* a re-index failed without a call of indexPhoto while the index held a
\* record
C25_Witness ==
    /\ lastReturn.kind = "reindex"
    /\ lastReturn.failed = 1
    /\ lastCall = NoCall
    /\ photos /= {}

\* C26: every record has a key with a photo or video extension, and its
\* type is video exactly when the extension is a video extension.
C26_OnlyMediaIsIndexed ==
    \A r \in photos :
       /\ isImage(r.s3Key) \/ isVideo(r.s3Key)
       /\ r.type = "video" <=> isVideo(r.s3Key)

\* the gets whose read of the cache file has settled
SettledGets == cacheCalls - Cardinality({r \in Requests : requests[r].pc = "readFile"})
\* a get finds no artifact in this step
GetMisses == \E r \in Requests : requests[r].pc = "readFile" /\ requests'[r].pc = "download"

\* C23: the hit rate of getStats is 0 before any get; a get that finds no
\* artifact adds one miss and no hit, a get that returns cached bytes adds one
\* hit and no miss, so that hits + misses is the number of gets answered, and
\* the hit rate is hits / (hits + misses).
C23_HitRateCountsEachGetOnce ==
    /\ getStats.hitRate = [num |-> 0, den |-> 1]
    /\ [][/\ misses' = misses + (IF GetMisses THEN 1 ELSE 0)
          /\ (SettledGets' = cacheCalls') => (hits' + misses' = cacheCalls')
          /\ (SettledGets' > 0) =>
                (getStats'.hitRate = [num |-> SettledGets' - misses', den |-> SettledGets'])]_vars

\* C21: when a delete has answered success, the table has no record of the
\* key of the deleted photo and the cache directory holds no thumbnail,
\* preview or original of that key.
C21_DeleteRemovesRecordAndArtifacts ==
    [][\A r \in Requests :
          DeleteObject(r)
             => LET s3Key == Get(requests[r].photo).s3Key IN
                /\ RowsOf(photos', s3Key) = {}
                /\ \A size \in CacheSizes : files'[getCachePath(s3Key, size)] = 0]_vars

\* the artifact files a call of saveToCac has written and not yet counted
WrittenUncounted == {Get(requests[r].path) : r \in {q \in Requests : requests[q].pc = "written"}}

\* C22: when clearCache returns, currentSize and the number of entries are
\* 0 and the cache directory holds no artifact, but for the files that calls
\* of saveToCac in progress have written and are about to count.
C22_ClearIsOneOperation ==
    [][lastGet'.outcome = "cleared"
          => /\ getStats'.totalSize = 0
             /\ getStats'.itemCount = 0
             /\ \A p \in CachePaths : files'[p] > 0 => p \in WrittenUncounted']_vars

\* C30: when the EXIF extraction or the refinement write of a request
\* throws, the table is as it was and the request goes on to generate the
\* artifact; unless the generation itself fails, it writes the artifact,
\* counts it in the cache and returns it.
C30_ExifFailureDoesNotBlock ==
    [][\A r \in Requests :
          /\ (requests[r].pc = "exif" /\ requests'[r].exifFailed)
                => /\ photos' = photos
                   /\ requests'[r].pc = "generate"
          /\ (requests[r].exifFailed /\ requests[r].pc = "generate"
                 /\ requests'[r] /= requests[r] /\ lastGet'.outcome /= "failed")
                => /\ requests'[r].pc = "written"
                   /\ files'[Get(requests[r].path)] = requests[r].length
          /\ (requests[r].exifFailed /\ requests[r].pc = "written"
                 /\ requests'[r] /= requests[r])
                => /\ PosOf(cacheMap', Get(requests[r].path)) > 0
                   /\ currentSize' = currentSize + requests[r].length
          /\ (requests[r].exifFailed /\ requests[r].pc /= "generate"
                 /\ requests'[r].pc = "idle")
                => lastGet' = [target |-> requests[r].target, outcome |-> "generated",
                               exifFailed |-> TRUE]]_vars

\* a request whose EXIF extraction threw has returned the artifact it
\* generated, the file is in the cache directory, and the record of its key
\* has no EXIF data
C30_Witness ==
    /\ lastGet.outcome = "generated"
    /\ lastGet.exifFailed
    /\ files[getCachePath(Get(lastGet.target).s3Key, Get(lastGet.target).size)] > 0
    /\ ~IsSome(Get(getPhotoByS3Key(Get(lastGet.target).s3Key)).exif)

\* C27: hasMore of a page is true exactly when offset + the length of the
\* page is less than the number of records that match the date filters of
\* the query.
C27_HasMoreCountsMatchingRecords ==
    lastReturn.kind = "page" =>
        (lastReturn.hasMore <=>
            Get(lastReturn.query).offset + Len(lastReturn.page)
                < Cardinality(Matching(photos, Get(lastReturn.query))))

\* C28: when generateThumbnail returns or throws, neither the temporary
\* video nor the temporary frame of the call exists.
C28_TempFilesRemovedOnEveryExit ==
    [][\A r \in Requests :
          (requests[r].pc \in {"getObject", "writeVideo", "ffmpeg", "readThumb",
                               "unlinkVideo", "unlinkThumb"}
             /\ requests'[r].pc = "idle")
             => /\ files'[tempVideoPath(r)] = 0
                /\ files'[tempThumbPath(r)] = 0]_vars

\* generateThumbnail has thrown, no temporary file is left, and the other
\* call is past its write of the temporary video
C28_Witness ==
    /\ lastGet.outcome = "failed"
    /\ \E r \in Requests :
          /\ requests[r].pc = "idle"
          /\ files[tempVideoPath(r)] = 0 /\ files[tempThumbPath(r)] = 0
          /\ \E q \in Requests \ {r} : files[tempVideoPath(q)] > 0

\* C29: a call of listAllObjects that returns gives the objects of every
\* page, in the order of the pages, which is the whole listing; a call one
\* of whose requests failed throws and gives no objects.
C29_ListingIsWholeOrFails ==
    lastReturn.kind = "list" =>
        IF lastReturn.failed = 0
        THEN lastReturn.objects = listAllObjects
        ELSE lastReturn.objects = <<>>

\* a listing of more objects than a page holds was returned, while the
\* other call has pushed the objects of its first page
C29_Witness ==
    /\ lastReturn.kind = "list"
    /\ lastReturn.failed = 0
    /\ Len(lastReturn.objects) > MaxKeys
    /\ \E r \in Requests : requests[r].pc = "send" /\ Len(requests[r].objects) > 0

\* C38: the tracked size of the cache is never negative, in any state that
\* requests, eviction passes and clearCache can reach together.
C38_TrackedSizeNeverNegative == currentSize >= 0

\* the steps of evictIfNeeded of request r: its start in saveToCac, an
\* fs.unlink taking effect, the continuation of the loop
EvictionStep(r) ==
    \/ requests[r].pc = "written" /\ requests'[r].pc = "unlink"
    \/ requests[r].pc = "unlink" /\ requests'[r].pc = "unlinked"
    \/ requests[r].pc = "unlinked" /\ requests'[r] /= requests[r]
\* the steps of clearCache of request r, its call and its return included
ClearStep(r) ==
    \/ requests[r].pc = "idle" /\ requests'[r].pc = "rm"
    \/ requests[r].pc \in {"rm", "mkdir"} /\ requests'[r] /= requests[r]

\* C34: no step of an eviction pass and no step of clearCache deletes, adds
\* or changes a record; in the step in which the pass ends and the request
\* returns, the only change is the cached flag that the returning request
\* sets for the photo whose thumbnail it generated.
C34_EvictionAndClearKeepRecords ==
    [][\A r \in Requests :
          /\ ClearStep(r) => photos' = photos
          /\ EvictionStep(r)
                => \/ photos' = photos
                   \/ /\ lastPut'.done
                      /\ Get(requests[r].target).size = "thumbnail"
                      /\ IsSome(requests[r].photoId)
                      /\ photos' = markAsCached(photos, Get(requests[r].photoId))]_vars

\* an eviction pass has removed the thumbnail of p/2022/a.jpg while
\* clearCache has emptied a directory, and the record of the key is still
\* marked as cached
C34_Witness ==
    /\ lastEvict.entry = Some(getCachePath(KeyA, "thumbnail"))
    /\ \E r \in Requests : requests[r].pc \in {"rm", "mkdir"} /\ Len(requests[r].dirs) < 3
    /\ \E row \in RowsOf(photos, KeyA) : row.cached = 1

\* C39: under the date accuracy modes none and folders no step of a request
\* for an artifact changes the createdAt of a record.
C39_NoRefinementOutsideFoldersExif ==
    [][(dateAccuracy \in {"none", "folders"})
          => \A old \in photos : \A new \in photos' :
                (old.s3Key = new.s3Key) => (new.createdAt = old.createdAt)]_vars

\* the createdAt that a refinement writes from the EXIF date of the bytes
ExifCreatedAt == toISOString(Get(ExifFull.DateTimeOriginal))

\* C33: a record whose createdAt is the EXIF date keeps that createdAt in
\* every step of indexAllPhotos, of the background loop, of indexNextBatch
\* and of reindexPhoto, also when the call finds another modification
\* marker than the stored one and writes the record again.
C33_RefinedDateSurvivesIndexing ==
    [][\A row \in photos :
          (row.createdAt = ExifCreatedAt)
             => \A new \in photos' :
                   (new.s3Key = row.s3Key) => (new.createdAt = row.createdAt)]_vars

\* outside mode exif, where only a refinement writes the EXIF date: the
\* record of p/2022/a.jpg holds the EXIF date, and the latest step indexed
\* the key again with a changed marker and wrote the record
C33_Witness ==
    /\ dateAccuracy /= "exif"
    /\ \E row \in RowsOf(photos, KeyA) :
          /\ row.createdAt = ExifCreatedAt
          /\ row.modifiedAt = toISOString(ObjectOf(KeyA).lastModified)
          /\ ObjectOf(KeyA).lastModified /= DateOfMs(1)
    /\ lastCall.object = Some(S3Object(ObjectOf(KeyA)))
    /\ lastCall.outcome = "ok"
    /\ lastCall.hadRow
    /\ ~lastCall.sameMarker

\* C35: a record that is marked as cached stays marked as cached in every
\* step of the indexer and of the requests.
C35_CachedFlagSurvivesReindex ==
    [][\A row \in photos :
          (row.cached = 1)
             => \A new \in photos' : (new.s3Key = row.s3Key) => (new.cached = 1)]_vars

(***************************************************************************)
(* The passes of indexAllPhotos by themselves: the call of start() and the *)
(* calls of POST /api/photos/refresh with their background loops, for      *)
(* every kind of initialLimit the function documents (0, below, at and     *)
(* above the number of media objects, Infinity), background indexing       *)
(* enabled and disabled, and indexPhoto without an await (folders) and     *)
(* with one (exif).                                                        *)
(***************************************************************************)
RunLimits == {0, 1, 2, 3, Infinity}

RunInit ==
    /\ \E limit \in RunLimits, enabled \in BOOLEAN, mode \in {"folders", "exif"} :
          IndexStart([dateAccuracy |-> mode, enableBackgroundIndexing |-> enabled,
                      preloadCount |-> limit])
    /\ CacheStart(ColdFiles, <<>>)

RunNext ==
    \/ \E r \in Runners : Refresh(r)
    \/ \E r \in Runners : RunList(r)
    \/ \E r \in Runners : RunIndex(r)
    \/ \E r \in Runners : RunResume(r)
    \/ \E n \in 1..Len(bgLoops) : BgIndex(n)
    \/ \E n \in 1..Len(bgLoops) : BgResume(n)

RunSpec == RunInit /\ [][RunNext]_vars

\* a step of BgIndex, told by what it does to the loops: a loop whose call
\* of indexPhoto has settled ends, or is at its next object.  No other
\* action of RunNext removes a loop or moves its position, and BgIndex can
\* be taken whenever a call has settled, so that the step is enabled
\* exactly when BgIndex is.
BgStep ==
    \E n \in 1..Len(bgLoops) :
       /\ bgLoops[n].out \in {"ok", "failed"}
       /\ \/ bgLoops' = RemoveAt(bgLoops, n)
          \/ /\ Len(bgLoops') = Len(bgLoops)
             /\ bgLoops'[n].pos = bgLoops[n].pos + 1

\* a step of BgResume, told in the same way: the fetch of a suspended call
\* of indexPhoto settles, and the call has returned or thrown
BgSettle ==
    \E n \in 1..Len(bgLoops) :
       /\ bgLoops[n].out = "suspended"
       /\ \E out \in {"ok", "failed"} :
             bgLoops' = [bgLoops EXCEPT ![n].out = out, ![n].fetch = None]

\* the event loop runs the continuation of a detached loop that is ready,
\* and every EXIF fetch of a detached loop settles: the call of indexPhoto
\* returns or throws
FairRunSpec ==
    /\ RunSpec
    /\ WF_bgLoops(BgStep)
    /\ WF_bgLoops(BgSettle)

\* the call of indexAllPhotos of runner r returns in this step
RunReturns(r) == run[r].pc /= "idle" /\ run'[r].pc = "idle"
\* a detached loop is started in this step
LoopStarted == Len(bgLoops') = Len(bgLoops) + 1
\* initialLimit is finite and positive, more media objects than that are
\* listed, and background indexing is enabled
WantsBackground(ret) ==
    /\ ret.limit > 0 /\ ret.limit < Infinity
    /\ ret.total > ret.limit
    /\ enableBackgroundIndexing

\* C32 as stated: a call of indexAllPhotos starts a detached loop, and
\* returns backgroundIndexing true, exactly when initialLimit is finite and
\* positive, more media objects than initialLimit are listed and background
\* indexing is enabled; with initialLimit 0 or Infinity it has called
\* indexPhoto for every listed media object and starts no loop.
C32_StartsAndReportsBackground ==
    [][\A r \in Runners :
          RunReturns(r)
             => /\ lastReturn'.backgroundIndexing <=> WantsBackground(lastReturn')
                /\ LoopStarted <=> WantsBackground(lastReturn')
                /\ (lastReturn'.limit \in {0, Infinity})
                      => /\ Len(lastReturn'.processed) = lastReturn'.total
                         /\ ~LoopStarted]_vars

\* C32 amended: the call returns backgroundIndexing true exactly under these
\* conditions, and it starts a detached loop exactly when, in addition, no
\* loop is active when it returns; with initialLimit 0 or Infinity it has
\* called indexPhoto for every listed media object and starts no loop.
C32_ReportsBackgroundStartsWhenIdle ==
    [][\A r \in Runners :
          RunReturns(r)
             => /\ lastReturn'.backgroundIndexing <=> WantsBackground(lastReturn')
                /\ LoopStarted <=> (WantsBackground(lastReturn') /\ ~backgroundIndexing)
                /\ (lastReturn'.limit \in {0, Infinity})
                      => /\ Len(lastReturn'.processed) = lastReturn'.total
                         /\ lastReturn'.total = ListedMedia
                         /\ ~LoopStarted]_vars

\* a call has returned backgroundIndexing true and started no loop, because
\* the loop of an earlier call is still at work
C32_Witness ==
    /\ lastReturn.kind = "run"
    /\ lastReturn.backgroundIndexing
    /\ ~lastReturn.started
    /\ Len(bgLoops) = 1
    /\ backgroundIndexing
\* a call with initialLimit Infinity has returned after it indexed the three
\* media objects itself
C32_WitnessUnlimited ==
    /\ lastReturn.kind = "run"
    /\ lastReturn.limit = Infinity
    /\ Len(lastReturn.processed) = 3
    /\ ~lastReturn.backgroundIndexing
    /\ bgLoops = <<>>

\* the detached loop n ends in this step
LoopEnds(n) == Len(bgLoops') < Len(bgLoops) /\ n = 1

\* C40: a background loop starts at its first object and goes from each
\* object to the next, whether indexPhoto returned or threw; it ends after
\* its last object, with every object counted as indexed or failed, and
\* resets backgroundIndexing; and when every call of indexPhoto returns or
\* throws, a loop that runs ends.
C40_BackgroundLoopTerminates ==
    /\ [][/\ LoopStarted => /\ bgLoops'[Len(bgLoops')].pos = 1
                            /\ backgroundIndexing'
          /\ \A n \in 1..Len(bgLoops) :
                IF LoopEnds(n)
                THEN /\ bgLoops[n].pos = Len(bgLoops[n].objects)
                     /\ backgroundIndexStats'.indexed + backgroundIndexStats'.failed
                           = Len(bgLoops[n].objects)
                     /\ ~backgroundIndexing'
                ELSE /\ Len(bgLoops') >= Len(bgLoops)
                     /\ bgLoops'[n].objects = bgLoops[n].objects
                     /\ bgLoops'[n].pos \in {bgLoops[n].pos, bgLoops[n].pos + 1}
                     /\ (bgLoops'[n].pos = bgLoops[n].pos + 1)
                           => (bgLoops[n].out \in {"ok", "failed"})]_vars
    /\ (backgroundIndexing ~> ~backgroundIndexing)

\* a loop over two objects has ended after indexPhoto threw for one of
\* them, and the flag is reset
C40_Witness ==
    /\ lastLoop.finished
    /\ lastLoop.count = 2
    /\ backgroundIndexStats.failed > 0
    /\ backgroundIndexStats.indexed + backgroundIndexStats.failed = 2
    /\ ~backgroundIndexing
    /\ bgLoops = <<>>

\* the call that returned in the latest step handed the object of the key
\* to startBackgroundIndexing
InRemainder(k) ==
    /\ lastReturn.kind = "run"
    /\ lastReturn.backgroundIndexing
    /\ \E i \in 1..Len(lastReturn.remaining) : lastReturn.remaining[i].key = k
\* a detached loop is at the object of the key: it has called indexPhoto
\* for it
InBackground(k) ==
    \E n \in 1..Len(bgLoops) :
       /\ bgLoops[n].pos <= Len(bgLoops[n].objects)
       /\ bgLoops[n].objects[bgLoops[n].pos].key = k

InStartedRemainder(k) == InRemainder(k) /\ lastReturn.started

PassRequests == {"r1"}

\* PRELOAD_COUNT=1 with background indexing enabled: start() indexes the
\* newest object and leaves the other two to the detached loop
PassInit ==
    /\ \E mode \in {"folders", "exif"} :
          IndexStart([dateAccuracy |-> mode, enableBackgroundIndexing |-> TRUE,
                      preloadCount |-> 1])
    /\ CacheStart(ColdFiles, <<>>)

PassNext ==
    \/ \E r \in Runners : Refresh(r)
    \/ \E r \in Runners : RunList(r)
    \/ \E r \in Runners : RunIndex(r)
    \/ \E r \in Runners : RunResume(r)
    \/ \E n \in 1..Len(bgLoops) : BgIndex(n)
    \/ \E n \in 1..Len(bgLoops) : BgResume(n)
    \/ \E r \in PassRequests, photoId \in DeleteIds : DeletePhoto(r, photoId)
    \/ \E r \in PassRequests : DeleteObject(r)
    \/ \E r \in PassRequests : DeleteObjectFail(r)

PassSpec == PassInit /\ [][PassNext]_vars

\* no call of indexAllPhotos is between its listing and its return, and no
\* detached loop is at work
PassesFinished ==
    /\ \A r \in Runners : run[r].pc = "idle"
    /\ bgLoops = <<>>

\* C36: once every pass in flight has finished, the index has no record for
\* a key whose object a delete has removed from the bucket (no object is put
\* back in this specification, so no later listing has the key).
C36_DeletedRecordStaysDeleted ==
    \A k \in Keys :
       ((~\E o \in bucket : o.key = k) /\ PassesFinished) => ~\E row \in photos : row.s3Key = k

(***************************************************************************)
(* CacheManagerService.calculateCurrentSize, the rescan of the cache       *)
(* directory that initializeCache runs, alone: no request and no clear is  *)
(* in progress.  The disk holds what an earlier run of the server left,    *)
(* and the tracked state is what the routine finds in currentSize and      *)
(* cacheMap when it is called.                                             *)
(***************************************************************************)
\* const dirs = [this.thumbnailDir, this.previewDir, this.originalDir]
ScanDirs == <<"thumbnail", "preview", "original">>

\* the files an earlier run may have left
ScanProbes == {getCachePath(KeyA, "thumbnail"), getCachePath(KeyB, "thumbnail"),
               getCachePath(KeyA, "preview"), getCachePath(KeyB, "original")}

\* the length of the file an earlier run wrote at a path
ScanLength(p) ==
    ArtifactLength(p.dir, (CHOOSE o \in InitialBucket : getHash(o.key) = p.hash).size)

\* the contents of the cache directory at the start
ScanDisks == {[p \in CachePaths |-> IF p \in S THEN ScanLength(p) ELSE 0] : S \in SUBSET ScanProbes}

\* the tracked states the routine is called with: the field initialisers, the
\* state of a cache in use, and a state that has nothing to do with the disk
ScanTracked ==
    { [currentSize |-> 0, cacheMap |-> <<>>],
      [currentSize |-> SumSizes(WarmEntries), cacheMap |-> WarmEntries],
      [currentSize |-> 0 - 3, cacheMap |-> <<[path |-> getCachePath(KeyC, "preview"),
                                              size |-> 6, accessTime |-> 1]>>] }

\* stats.atimeMs of a file
ScanTimes == {1, 2}

RescanInit ==
    /\ IndexedStart(CHOOSE c \in Configurations : c.dateAccuracy = "folders", TRUE)
    /\ \E disk \in ScanDisks, tracked \in ScanTracked :
          /\ files = disk
          /\ cacheMap = tracked.cacheMap
          /\ currentSize = tracked.currentSize
    /\ hits = 0
    /\ misses = 0
    /\ now = 2
    /\ requests = [r \in Requests |-> IdleRequest]
    /\ cacheCalls = 0
    /\ readSinceWrite = {}
    /\ lastPut = NoPut
    /\ lastEvict = NoEvict
    /\ fetched = {}
    /\ lastGet = NoGet
    /\ lastRefine = NoRefine

\* the files under a directory of the cache
FilesIn(dir) == {p \in CachePaths : p.dir = dir /\ files[p] > 0}

\* the orders in which getAllFiles can return a set of files: the order of
\* fs.readdir is the order of the file system
Orders(S) ==
    {s \in [1..Cardinality(S) -> S] : \A i, j \in 1..Cardinality(S) : (s[i] = s[j]) => (i = j)}

\* the tracked size is left as it is
ScanStartSizeKept == currentSize

\* this.currentSize = 0
ScanStartSize == 0

\* where the routine goes on with the directories and the files left: the
\* next fs.stat, the next getAllFiles, or the return
ScanProceed(r, dirs, entries) ==
    IF entries /= <<>>
    THEN /\ requests' = [requests EXCEPT ![r].pc = "stat", ![r].dirs = dirs,
                                         ![r].entries = entries]
         /\ lastGet' = NoGet
    ELSE IF Len(dirs) > 1
    THEN /\ requests' = [requests EXCEPT ![r].pc = "readdir", ![r].dirs = Tail(dirs),
                                         ![r].entries = <<>>]
         /\ lastGet' = NoGet
    ELSE /\ requests' = [requests EXCEPT ![r] = IdleRequest]
         /\ lastGet' = [NoGet EXCEPT !.outcome = "rescanned"]

\* calculateCurrentSize up to its first await: the reset of lines 249-250
\* and the call of getAllFiles for the first directory
calculateCurrentSize(r) ==
    /\ \A q \in Requests : requests[q].pc = "idle"
    /\ cacheCalls < MaxRequests
    /\ cacheCalls' = cacheCalls + 1
    /\ currentSize' = ScanStartSize
    /\ cacheMap' = <<>>
    /\ requests' = [requests EXCEPT ![r] = [IdleRequest EXCEPT !.pc = "readdir",
                                                               !.dirs = ScanDirs]]
    /\ lastGet' = NoGet
    /\ CacheQuiet
    /\ UNCHANGED <<indexVars, files, hits, misses, now, readSinceWrite, fetched, lastRefine>>

\* getAllFiles(dir) returns the files under the directory
ScanReaddir(r) ==
    /\ requests[r].pc = "readdir"
    /\ \E order \in Orders(FilesIn(Head(requests[r].dirs))) :
          ScanProceed(r, requests[r].dirs, order)
    /\ CacheQuiet
    /\ UNCHANGED <<indexVars, files, cacheMap, currentSize, hits, misses, now, cacheCalls,
                   readSinceWrite, fetched, lastRefine>>

\* fs.stat(file) returns: the size is added and the entry is set
ScanStat(r) ==
    /\ requests[r].pc = "stat"
    /\ LET file == Head(requests[r].entries) IN
       \E atimeMs \in ScanTimes :
          /\ currentSize' = AddSize(currentSize, files[file])
          /\ cacheMap' = MapSet(cacheMap, [path |-> file, size |-> files[file],
                                           accessTime |-> atimeMs])
          /\ ScanProceed(r, requests[r].dirs, Tail(requests[r].entries))
    /\ CacheQuiet
    /\ UNCHANGED <<indexVars, files, hits, misses, now, cacheCalls, readSinceWrite, fetched,
                   lastRefine>>

RescanNext ==
    \/ \E r \in Requests : calculateCurrentSize(r)
    \/ \E r \in Requests : ScanReaddir(r)
    \/ \E r \in Requests : ScanStat(r)

RescanSpec == RescanInit /\ [][RescanNext]_vars

\* the files on disk, as entries without their access time
FilesOnDisk == {[path |-> p, size |-> files[p]] : p \in {q \in CachePaths : files[q] > 0}}

\* C31: when calculateCurrentSize returns, having run alone, currentSize is
\* the sum of the sizes of the files under the three directories and
\* cacheMap has exactly one entry per file, with the size of the file,
\* whatever currentSize and cacheMap were when it was called.
C31_RescanRebuildsTrackedState ==
    (lastGet.outcome = "rescanned") =>
        /\ currentSize = SumFiles(CachePaths)
        /\ EntriesOf(cacheMap) = FilesOnDisk
        /\ Len(cacheMap) = Cardinality(FilesOnDisk)

\* a rescan has returned over a disk with a file in each directory
C31_Witness ==
    /\ lastGet.outcome = "rescanned"
    /\ \A dir \in CacheSizes : FilesIn(dir) /= {}
    /\ Len(cacheMap) = 4
    /\ currentSize = 3 + 3 + 6 + 11

====
